---- MODULE Spec2Model ----
(***************************************************************************)
(* The standings / analytics aggregation engine of the fantasy-football    *)
(* report generator: ff/compute/core.py and its older copy                 *)
(* scripts/lib/compute.py.                                                 *)
(*                                                                         *)
(* Data representation                                                     *)
(*   - A Python dict with optional keys is a TLA+ record whose DOMAIN      *)
(*     holds the keys that are present with a non-null value:              *)
(*     row.get("roster_id") is None  <=>  "roster_id" \notin DOMAIN row.   *)
(*   - A score is a float in the source.  Here it is an integer number of  *)
(*     thousandths of a point, so round(x, 2) is the rounding to a         *)
(*     multiple of 10.  PointVals holds even values only, so no sum lies   *)
(*     on a rounding tie (where the binary representation of the float     *)
(*     would decide the outcome).                                          *)
(*   - A points value that is a non-numeric string is the field            *)
(*     points_str; float() of it raises ValueError.                        *)
(*   - win_pct is held in units of 1/10000 (round(x, 4)).                  *)
(*   - An insertion-ordered dict whose keys the code ignores               *)
(*     (weekly_groups[wk]) is the sequence of its values; the records      *)
(*     dict is the sequence of its values in insertion order.              *)
(*   - A raised exception is the field raised of a call's result.          *)
(***************************************************************************)
EXTENDS Integers, Sequences, FiniteSets, TLC

VARIABLES weekly_groups, standings, weekly_results, rows, grouped, res_list, streak,
          longest, ctx, clock, rate

coreVars == <<weekly_groups, standings, weekly_results>>
groupVars == <<rows, grouped>>
streakVars == <<res_list, streak, longest>>
clientVars == <<clock, rate>>
vars == <<weekly_groups, standings, weekly_results, rows, grouped, res_list, streak,
          longest, ctx, clock, rate>>

(***************************************************************************)
(* Bounds of the model and the input domains.                              *)
(***************************************************************************)
MaxWeek == 2
MaxEntries == 4
MaxGroupSize == 3
MaxMalformedEntries == 3
MaxRows == 3
MaxSeasonWeek == 6
MaxSparseEntries == 3
MaxArrangedEntries == 3

Weeks == 1..MaxWeek
RosterIds == {1, 2, 3}
MalformedRosterIds == {1, 2}
PointVals == {0, 4}

WellFormedEntries == [roster_id : RosterIds, points : PointVals]

MalformedEntries ==
    [roster_id : MalformedRosterIds, points : PointVals]
        \cup [points : PointVals]
        \cup [roster_id : MalformedRosterIds]
        \cup [roster_id : MalformedRosterIds, points_str : {"DNP"}]

\* The raw rows of one week: the matchup id may be absent, and so may the
\* roster id.
RowRosterIds == {1, 2, 3}
MatchupIds == {1, 2}
RawRows ==
    [roster_id : RowRosterIds, matchup_id : MatchupIds, points : {4}]
        \cup [roster_id : RowRosterIds, points : {4}]
        \cup [matchup_id : MatchupIds, points : {4}]
        \cup [points : {4}]

Outcomes == {"W", "L", "T"}
SeasonWeeks == 1..MaxSeasonWeek

NotCalled == [called |-> FALSE]

(***************************************************************************)
(* Helpers: arithmetic.                                                    *)
(***************************************************************************)
Max(a, b) == IF a >= b THEN a ELSE b

RECURSIVE SumSeq(_)
SumSeq(s) == IF s = <<>> THEN 0 ELSE Head(s) + SumSeq(Tail(s))

RECURSIVE SumOver(_, _)
SumOver(S, f) ==
    IF S = {} THEN 0
    ELSE LET x == CHOOSE y \in S : TRUE IN f[x] + SumOver(S \ {x}, f)

\* Python round(): the nearest value, an exact tie going to the even one.
\* n >= 0 and d > 0; the result is the rounded quotient n / d.
RoundHalfEven(n, d) ==
    LET q == n \div d
        r == n % d
    IN  IF 2 * r < d THEN q
        ELSE IF 2 * r > d THEN q + 1
        ELSE IF q % 2 = 0 THEN q ELSE q + 1

\* round(x, 2) of a value held in thousandths.
Round2(x) == RoundHalfEven(x, 10) * 10

\* round((wins + 0.5 * ties) / g, 4) if g else 0.0, in units of 1/10000.
WinPct(wins, ties, g) ==
    IF g = 0 THEN 0 ELSE RoundHalfEven((2 * wins + ties) * 10000, 2 * g)

(***************************************************************************)
(* Helpers: reading an entry.                                              *)
(***************************************************************************)
HasRid(e) == "roster_id" \in DOMAIN e

\* float(e.get("points", 0) or 0) raises ValueError on a non-numeric string.
FloatRaises(e) == "points_str" \in DOMAIN e

\* float(e.get("points", 0) or 0) when it does not raise.
Float(e) == IF "points" \in DOMAIN e THEN e.points ELSE 0

\* _coerce_int(row.get(key), default); the model's ids are integers.
_coerce_int(row, key, default) == IF key \in DOMAIN row THEN row[key] ELSE default

Raise(st, exc) == [st EXCEPT !.raised = exc]

(***************************************************************************)
(* The records dict of compute_standings_with_groups.                      *)
(***************************************************************************)
NewRec(rid) ==
    [roster_id |-> rid, wins |-> 0, losses |-> 0, ties |-> 0,
     points_for |-> 0, points_against |-> 0]

IndexOf(records, rid) ==
    IF \E i \in DOMAIN records : records[i].roster_id = rid
    THEN CHOOSE i \in DOMAIN records : records[i].roster_id = rid
    ELSE 0

\* records.setdefault(rid, {...})
setdefault(records, rid) ==
    IF IndexOf(records, rid) = 0 THEN Append(records, NewRec(rid)) ELSE records

\* rec["points_for"] += pf; rec["points_against"] += pa
AddPoints(records, rid, pf, pa) ==
    LET i == IndexOf(records, rid)
    IN  [records EXCEPT ![i].points_for = @ + pf, ![i].points_against = @ + pa]

AddWin(records, rid) ==
    [records EXCEPT ![IndexOf(records, rid)].wins = @ + 1]

AddLoss(records, rid) ==
    [records EXCEPT ![IndexOf(records, rid)].losses = @ + 1]

AddTie(records, rid) ==
    [records EXCEPT ![IndexOf(records, rid)].ties = @ + 1]

(***************************************************************************)
(* compute_standings_with_groups.  impl is "core" for ff/compute/core.py   *)
(* and "lib" for scripts/lib/compute.py, which converts the roster id with *)
(* int(e.get("roster_id")) and has none of the None checks.  The fold      *)
(* state st is [records, raised].                                          *)
(***************************************************************************)

\* One pass of `for e in (a, b)` in the 2-entry branch.
PairEntryStep(impl, st, e, opp) ==
    IF st.raised # "none" THEN st
    ELSE IF ~HasRid(e)
         THEN IF impl = "lib" THEN Raise(st, "TypeError") ELSE st
    ELSE IF FloatRaises(e) \/ FloatRaises(opp) THEN Raise(st, "ValueError")
    ELSE LET rid == _coerce_int(e, "roster_id", -1)
         IN  [st EXCEPT !.records =
                 AddPoints(setdefault(@, rid), rid, Float(e), Float(opp))]

\* PairDecision with `elif bp >= ap`: a tied matchup counts as a win of b.
PairDecisionTieAsWin(impl, st, a, b) ==
    IF st.raised # "none" THEN st
    ELSE IF FloatRaises(a) \/ FloatRaises(b) THEN Raise(st, "ValueError")
    ELSE IF ~HasRid(a) \/ ~HasRid(b)
         THEN IF impl = "lib" THEN Raise(st, "TypeError") ELSE st
    ELSE LET ap == Float(a)
             bp == Float(b)
             a_rid == _coerce_int(a, "roster_id", -1)
             b_rid == _coerce_int(b, "roster_id", -1)
         IN  IF ap > bp
             THEN [st EXCEPT !.records = AddLoss(AddWin(@, a_rid), b_rid)]
             ELSE [st EXCEPT !.records = AddLoss(AddWin(@, b_rid), a_rid)]

\* The win / loss / tie attribution that follows the loop: ap, bp, the
\* check of both roster ids, and the comparison.
PairDecision(impl, st, a, b) ==
    IF st.raised # "none" THEN st
    ELSE IF FloatRaises(a) \/ FloatRaises(b) THEN Raise(st, "ValueError")
    ELSE IF ~HasRid(a) \/ ~HasRid(b)
         THEN IF impl = "lib" THEN Raise(st, "TypeError") ELSE st
    ELSE LET ap == Float(a)
             bp == Float(b)
             a_rid == _coerce_int(a, "roster_id", -1)
             b_rid == _coerce_int(b, "roster_id", -1)
         IN  IF ap > bp
             THEN [st EXCEPT !.records = AddLoss(AddWin(@, a_rid), b_rid)]
             ELSE IF bp > ap
             THEN [st EXCEPT !.records = AddLoss(AddWin(@, b_rid), a_rid)]
             ELSE [st EXCEPT !.records = AddTie(AddTie(@, a_rid), b_rid)]

\* if len(entries) == 2: ...
PairGroup(impl, st, entries) ==
    LET a == entries[1]
        b == entries[2]
    IN  PairDecision(impl,
            PairEntryStep(impl, PairEntryStep(impl, st, a, b), b, a), a, b)

\* total_points = [float(e.get("points", 0) or 0) for e in entries]
total_points(entries) == [i \in DOMAIN entries |-> Float(entries[i])]

\* OtherEntryStep with points_against += sum(total_points): the entry's own
\* score is counted against it.
OtherEntryStepOwnIncluded(impl, st, entries, i) ==
    IF st.raised # "none" THEN st
    ELSE IF ~HasRid(entries[i])
         THEN IF impl = "lib" THEN Raise(st, "TypeError") ELSE st
    ELSE LET rid == _coerce_int(entries[i], "roster_id", -1)
             tp == total_points(entries)
         IN  [st EXCEPT !.records =
                 AddPoints(setdefault(@, rid), rid, tp[i], SumSeq(tp))]

\* The body of `for i, e in enumerate(entries)` in the else branch.
OtherEntryStep(impl, st, entries, i) ==
    IF st.raised # "none" THEN st
    ELSE IF ~HasRid(entries[i])
         THEN IF impl = "lib" THEN Raise(st, "TypeError") ELSE st
    ELSE LET rid == _coerce_int(entries[i], "roster_id", -1)
             tp == total_points(entries)
         IN  [st EXCEPT !.records =
                 AddPoints(setdefault(@, rid), rid, tp[i], SumSeq(tp) - tp[i])]

RECURSIVE OtherEntries(_, _, _, _)
OtherEntries(impl, st, entries, i) ==
    IF i > Len(entries) THEN st
    ELSE OtherEntries(impl, OtherEntryStep(impl, st, entries, i), entries, i + 1)

\* else: ... (a group whose entry count is not 2)
OtherGroup(impl, st, entries) ==
    IF st.raised # "none" THEN st
    ELSE IF \E i \in DOMAIN entries : FloatRaises(entries[i])
         THEN Raise(st, "ValueError")
    ELSE OtherEntries(impl, st, entries, 1)

StandingsGroup(impl, st, entries) ==
    IF Len(entries) = 2 THEN PairGroup(impl, st, entries)
    ELSE OtherGroup(impl, st, entries)

\* for _, entries in (groups or {}).items()
RECURSIVE StandingsGroups(_, _, _)
StandingsGroups(impl, st, groups) ==
    IF groups = <<>> THEN st
    ELSE StandingsGroups(impl, StandingsGroup(impl, st, Head(groups)), Tail(groups))

\* None as the value of a week of weekly_groups: a value that is not a
\* dict of groups (the model's dicts of groups are sequences, with a domain
\* 1..n).
None == [k \in {0} |-> 0]

\* groups = weekly_groups.get(wk, {}), and then (groups or {})
GroupsOf(wg, wk) ==
    IF wk \in DOMAIN wg /\ wg[wk] # None THEN wg[wk] ELSE <<>>

\* range(start_week, max(start_week, end_week) + 1)
WeekRange(start_week, end_week) == start_week..Max(start_week, end_week)

\* The loop as it would be with `if wk not in weekly_groups: break`.
RECURSIVE StandingsWeeksStopAtMissing(_, _, _, _, _)
StandingsWeeksStopAtMissing(impl, st, wg, wk, last) ==
    IF wk > last \/ wk \notin DOMAIN wg THEN st
    ELSE StandingsWeeksStopAtMissing(impl,
             StandingsGroups(impl, st, GroupsOf(wg, wk)), wg, wk + 1, last)

\* for wk in range(start_week, max(start_week, end_week) + 1)
RECURSIVE StandingsWeeks(_, _, _, _, _)
StandingsWeeks(impl, st, wg, wk, last) ==
    IF wk > last THEN st
    ELSE StandingsWeeks(impl, StandingsGroups(impl, st, GroupsOf(wg, wk)),
                        wg, wk + 1, last)

\* One row of the table: {**rec, games, win_pct, rounded points}.
TableRow(rec) ==
    LET g == rec.wins + rec.losses + rec.ties
    IN  [roster_id |-> rec.roster_id, wins |-> rec.wins, losses |-> rec.losses,
         ties |-> rec.ties, games |-> g,
         win_pct |-> WinPct(rec.wins, rec.ties, g),
         points_for |-> Round2(rec.points_for),
         points_against |-> Round2(rec.points_against)]

\* KeyLess for key=lambda r: (-r["win_pct"], -r["points_for"]).
KeyLessNoRosterId(x, y) ==
    \/ x.win_pct > y.win_pct
    \/ x.win_pct = y.win_pct /\ x.points_for > y.points_for

\* key=lambda r: (-r["win_pct"], -r["points_for"], r["roster_id"]):
\* the key of x is smaller than the key of y.
KeyLess(x, y) ==
    \/ x.win_pct > y.win_pct
    \/ x.win_pct = y.win_pct /\ x.points_for > y.points_for
    \/ x.win_pct = y.win_pct /\ x.points_for = y.points_for
        /\ x.roster_id < y.roster_id

\* The table left as it was appended, in the order of the records dict.
InsertRowUnsorted(sorted, r) == Append(sorted, r)

\* list.sort is stable: a row goes behind every row whose key is not larger.
RECURSIVE InsertRow(_, _)
InsertRow(sorted, r) ==
    IF sorted = <<>> THEN <<r>>
    ELSE IF KeyLess(r, Head(sorted)) THEN <<r>> \o sorted
    ELSE <<Head(sorted)>> \o InsertRow(Tail(sorted), r)

RECURSIVE SortRows(_, _)
SortRows(sorted, rest) ==
    IF rest = <<>> THEN sorted
    ELSE SortRows(InsertRow(sorted, Head(rest)), Tail(rest))

standings_impl(impl, wg, start_week, end_week) ==
    LET st == StandingsWeeks(impl, [records |-> <<>>, raised |-> "none"], wg,
                             start_week, Max(start_week, end_week))
    IN  IF st.raised # "none"
        THEN [called |-> TRUE, start_week |-> start_week, end_week |-> end_week,
              raised |-> st.raised, records |-> <<>>, table |-> <<>>]
        ELSE [called |-> TRUE, start_week |-> start_week, end_week |-> end_week,
              raised |-> "none", records |-> st.records,
              table |-> SortRows(<<>>, [i \in DOMAIN st.records |->
                                            TableRow(st.records[i])])]

\* ff/compute/core.py
compute_standings_with_groups(wg, start_week, end_week) ==
    standings_impl("core", wg, start_week, end_week)

\* scripts/lib/compute.py
lib_compute_standings_with_groups(wg, start_week, end_week) ==
    standings_impl("lib", wg, start_week, end_week)

(***************************************************************************)
(* compute_weekly_results.  results maps a roster id to its sequence of    *)
(* <<week, outcome>>.                                                      *)
(***************************************************************************)

\* The append as it would be with results[rid] = [(wk, res)].
AppendResultOverwrites(results, rid, wk, res) ==
    [r \in DOMAIN results \cup {rid} |->
        IF r = rid THEN <<<<wk, res>>>> ELSE results[r]]

\* results.setdefault(rid, []).append((wk, res))
AppendResult(results, rid, wk, res) ==
    IF rid \in DOMAIN results
    THEN [results EXCEPT ![rid] = Append(@, <<wk, res>>)]
    ELSE [r \in DOMAIN results \cup {rid} |->
             IF r = rid THEN <<<<wk, res>>>> ELSE results[r]]

\* ResultsGroup with `if len(entries) < 2: continue`: the first two entries
\* of a larger group get an outcome.
ResultsGroupAtLeastTwo(impl, st, wk, entries) ==
    IF st.raised # "none" \/ Len(entries) < 2 THEN st
    ELSE LET a == entries[1]
             b == entries[2]
         IN  IF FloatRaises(a) \/ FloatRaises(b) THEN Raise(st, "ValueError")
             ELSE IF ~HasRid(a) \/ ~HasRid(b)
                  THEN IF impl = "lib" THEN Raise(st, "TypeError") ELSE st
             ELSE LET ap == Float(a)
                      bp == Float(b)
                      a_rid == _coerce_int(a, "roster_id", -1)
                      b_rid == _coerce_int(b, "roster_id", -1)
                  IN  IF ap > bp
                      THEN [st EXCEPT !.results = AppendResult(
                                AppendResult(@, a_rid, wk, "W"), b_rid, wk, "L")]
                      ELSE IF bp > ap
                      THEN [st EXCEPT !.results = AppendResult(
                                AppendResult(@, b_rid, wk, "W"), a_rid, wk, "L")]
                      ELSE [st EXCEPT !.results = AppendResult(
                                AppendResult(@, a_rid, wk, "T"), b_rid, wk, "T")]

\* The body of `for _, entries in (groups or {}).items()`.
ResultsGroup(impl, st, wk, entries) ==
    IF st.raised # "none" \/ Len(entries) # 2 THEN st
    ELSE LET a == entries[1]
             b == entries[2]
         IN  IF FloatRaises(a) \/ FloatRaises(b) THEN Raise(st, "ValueError")
             ELSE IF ~HasRid(a) \/ ~HasRid(b)
                  THEN IF impl = "lib" THEN Raise(st, "TypeError") ELSE st
             ELSE LET ap == Float(a)
                      bp == Float(b)
                      a_rid == _coerce_int(a, "roster_id", -1)
                      b_rid == _coerce_int(b, "roster_id", -1)
                  IN  IF ap > bp
                      THEN [st EXCEPT !.results = AppendResult(
                                AppendResult(@, a_rid, wk, "W"), b_rid, wk, "L")]
                      ELSE IF bp > ap
                      THEN [st EXCEPT !.results = AppendResult(
                                AppendResult(@, b_rid, wk, "W"), a_rid, wk, "L")]
                      ELSE [st EXCEPT !.results = AppendResult(
                                AppendResult(@, a_rid, wk, "T"), b_rid, wk, "T")]

RECURSIVE ResultsGroups(_, _, _, _)
ResultsGroups(impl, st, wk, groups) ==
    IF groups = <<>> THEN st
    ELSE ResultsGroups(impl, ResultsGroup(impl, st, wk, Head(groups)), wk,
                       Tail(groups))

RECURSIVE ResultsWeeks(_, _, _, _, _)
ResultsWeeks(impl, st, wg, wk, last) ==
    IF wk > last THEN st
    ELSE ResultsWeeks(impl, ResultsGroups(impl, st, wk, GroupsOf(wg, wk)),
                      wg, wk + 1, last)

results_impl(impl, wg, start_week, end_week) ==
    LET st == ResultsWeeks(impl, [results |-> <<>>, raised |-> "none"], wg,
                           start_week, Max(start_week, end_week))
    IN  [called |-> TRUE, start_week |-> start_week, end_week |-> end_week,
         raised |-> st.raised,
         results |-> IF st.raised = "none" THEN st.results ELSE <<>>]

\* ff/compute/core.py
compute_weekly_results(wg, start_week, end_week) ==
    results_impl("core", wg, start_week, end_week)

\* scripts/lib/compute.py
lib_compute_weekly_results(wg, start_week, end_week) ==
    results_impl("lib", wg, start_week, end_week)

(***************************************************************************)
(* group_rows.  The returned dict is the sequence of its items             *)
(* [mid, rows] in insertion order.                                         *)
(***************************************************************************)

\* group_key with the roster id left out of the synthesized id.
group_key_no_roster(impl, row) ==
    IF "matchup_id" \notin DOMAIN row
    THEN -100000
    ELSE _coerce_int(row, "matchup_id", -1)

\* The key a row is filed under.  core: -100000 - _coerce_int(roster_id, 0)
\* or _coerce_int(mid_raw, -1); lib: -100000 - row.get("roster_id", 0) or
\* int(mid).  (A roster_id key present with a null value, which makes the
\* lib subtraction raise, is not among the model's rows.)
group_key(impl, row) ==
    IF "matchup_id" \notin DOMAIN row
    THEN IF impl = "lib"
         THEN -100000 - (IF HasRid(row) THEN row.roster_id ELSE 0)
         ELSE -100000 - _coerce_int(row, "roster_id", 0)
    ELSE IF impl = "lib" THEN row.matchup_id
         ELSE _coerce_int(row, "matchup_id", -1)

\* groups.setdefault(mid, []).append(row)
FileRow(groups, mid, row) ==
    IF \E i \in DOMAIN groups : groups[i].mid = mid
    THEN LET i == CHOOSE k \in DOMAIN groups : groups[k].mid = mid
         IN  [groups EXCEPT ![i].rows = Append(@, row)]
    ELSE Append(groups, [mid |-> mid, rows |-> <<row>>])

RECURSIVE GroupFold(_, _, _)
GroupFold(impl, groups, rs) ==
    IF rs = <<>> THEN groups
    ELSE GroupFold(impl, FileRow(groups, group_key(impl, Head(rs)), Head(rs)),
                   Tail(rs))

\* ff/compute/core.py
group_rows(rs) == GroupFold("core", <<>>, rs)

\* scripts/lib/compute.py
lib_group_rows(rs) == GroupFold("lib", <<>>, rs)

(***************************************************************************)
(* current_streak.  An outcome sequence is a sequence of <<week, res>>.    *)
(***************************************************************************)

\* [t for t in res_list if t[0] <= through_week]
Filtered(rl, through_week) ==
    LET Keep(t) == t[1] <= through_week IN SelectSeq(rl, Keep)

\* StreakWalk in which a tie is skipped instead of ending the walk.
RECURSIVE StreakWalkSkipTies(_, _, _)
StreakWalkSkipTies(filtered, i, st) ==
    IF i = 0 THEN st
    ELSE LET week == filtered[i][1]
             res == filtered[i][2]
         IN  IF res = "T" THEN StreakWalkSkipTies(filtered, i - 1, st)
             ELSE IF st.streak_type = "none"
             THEN StreakWalkSkipTies(filtered, i - 1,
                      [streak_type |-> res, length |-> 1, start_wk |-> week])
             ELSE IF res = st.streak_type
             THEN StreakWalkSkipTies(filtered, i - 1,
                      [st EXCEPT !.length = @ + 1, !.start_wk = week])
             ELSE st

\* for week, res in reversed(filtered): ... with its two breaks; i is the
\* position the loop is at, 0 when the sequence is exhausted.
RECURSIVE StreakWalk(_, _, _)
StreakWalk(filtered, i, st) ==
    IF i = 0 THEN st
    ELSE LET week == filtered[i][1]
             res == filtered[i][2]
         IN  IF res = "T" THEN st
             ELSE IF st.streak_type = "none"
             THEN StreakWalk(filtered, i - 1,
                      [streak_type |-> res, length |-> 1, start_wk |-> week])
             ELSE IF res = st.streak_type
             THEN StreakWalk(filtered, i - 1,
                      [st EXCEPT !.length = @ + 1, !.start_wk = week])
             ELSE st

current_streak(rl, through_week) ==
    LET filtered == Filtered(rl, through_week)
    IN  IF filtered = <<>> THEN <<"none", 0, 0, through_week>>
        ELSE LET st == StreakWalk(filtered, Len(filtered),
                           [streak_type |-> "none", length |-> 0,
                            start_wk |-> through_week])
             IN  IF st.streak_type = "none" THEN <<"none", 0, 0, through_week>>
                 ELSE <<st.streak_type, st.length, st.start_wk, through_week>>

(***************************************************************************)
(* longest_streaks.  A best is <<length, label>>; the loop state is        *)
(* [best_win, best_loss, cur_type, cur_len, cur_start], with "none" for a  *)
(* cur_type of None and 0 for a cur_start of None.                         *)
(***************************************************************************)

\* f"w{start}-w{end}", as the pieces of the formatted string.
SpanLabel(start, end) == <<"w", start, "-w", end>>

\* The label of a best that was never set: "-".
NoSpan == <<"-">>

\* if cur_type == "W" and cur_len > best_win[0]: best_win = (...)
\* if cur_type == "L" and cur_len > best_loss[0]: best_loss = (...)
\* with end the week the label is closed with.
RecordBest(ls, end) ==
    [ls EXCEPT
        !.best_win = IF ls.cur_type = "W" /\ ls.cur_len > @[1]
                     THEN <<ls.cur_len, SpanLabel(ls.cur_start, end)>> ELSE @,
        !.best_loss = IF ls.cur_type = "L" /\ ls.cur_len > @[1]
                      THEN <<ls.cur_len, SpanLabel(ls.cur_start, end)>> ELSE @]

\* LongestStep in which a tie is passed over and the run goes on.
LongestStepTieKeepsRun(ls, week, res) ==
    IF res = "T" THEN ls
    ELSE IF res = ls.cur_type THEN [ls EXCEPT !.cur_len = @ + 1]
    ELSE [RecordBest(ls, week) EXCEPT
             !.cur_type = res, !.cur_len = 1, !.cur_start = week]

\* The body of `for week, res in filtered`.
LongestStep(ls, week, res) ==
    IF res = "T"
    THEN [RecordBest(ls, week) EXCEPT
             !.cur_type = "none", !.cur_len = 0, !.cur_start = 0]
    ELSE IF res = ls.cur_type THEN [ls EXCEPT !.cur_len = @ + 1]
    ELSE [RecordBest(ls, week) EXCEPT
             !.cur_type = res, !.cur_len = 1, !.cur_start = week]

RECURSIVE LongestLoop(_, _)
LongestLoop(ls, filtered) ==
    IF filtered = <<>> THEN ls
    ELSE LongestLoop(LongestStep(ls, Head(filtered)[1], Head(filtered)[2]),
                     Tail(filtered))

\* longest_streaks without the two checks after the loop: a run that is
\* still open at the end is not recorded.
longest_streaks_closed_runs(rl, through_week) ==
    LET ls == LongestLoop([best_win |-> <<0, NoSpan>>, best_loss |-> <<0, NoSpan>>,
                           cur_type |-> "none", cur_len |-> 0, cur_start |-> 0],
                          Filtered(rl, through_week))
    IN  <<ls.best_win, ls.best_loss>>

longest_streaks(rl, through_week) ==
    LET ls == RecordBest(
                  LongestLoop([best_win |-> <<0, NoSpan>>, best_loss |-> <<0, NoSpan>>,
                               cur_type |-> "none", cur_len |-> 0, cur_start |-> 0],
                              Filtered(rl, through_week)),
                  through_week)
    IN  <<ls.best_win, ls.best_loss>>

(***************************************************************************)
(* The report build: the data-supply layer fills weekly_groups week by     *)
(* week (weekly_groups[wk] = group_rows(rows)), then the aggregation       *)
(* functions are called on it with a week range.                           *)
(***************************************************************************)
RECURSIVE CountEntries(_)
CountEntries(groups) ==
    IF groups = <<>> THEN 0 ELSE Len(Head(groups)) + CountEntries(Tail(groups))

NumEntries(wg) ==
    SumOver(DOMAIN wg, [wk \in DOMAIN wg |-> CountEntries(GroupsOf(wg, wk))])

\* The groups of exactly k entries of E in which no roster has two rows.
RECURSIVE GroupsOfSize(_, _)
GroupsOfSize(E, k) ==
    IF k = 0 THEN {<<>>}
    ELSE UNION {{Append(g, e) :
                    e \in {x \in E : HasRid(x) =>
                              \A i \in DOMAIN g :
                                  HasRid(g[i]) => g[i].roster_id # x.roster_id}} :
                   g \in GroupsOfSize(E, k - 1)}

GroupsFrom(E, n) == UNION {GroupsOfSize(E, k) : k \in 1..n}

Min(a, b) == IF a <= b THEN a ELSE b

\* No section of the report context has been computed.
NoSection == [section |-> "none"]

NothingComputed ==
    standings = NotCalled /\ weekly_results = NotCalled /\ ctx = NoSection

\* weeks[wk] = group_rows(rows) for a week without rows: the key is there
\* and maps to an empty dict.
FetchWeek(wk) ==
    /\ NothingComputed
    /\ wk \notin DOMAIN weekly_groups
    /\ weekly_groups' = [w \in DOMAIN weekly_groups \cup {wk} |->
                            IF w = wk THEN <<>> ELSE weekly_groups[w]]
    /\ UNCHANGED <<standings, weekly_results, groupVars, streakVars, ctx, clientVars>>

\* A week whose value in weekly_groups is None.
NullWeek(wk) ==
    /\ NothingComputed
    /\ wk \notin DOMAIN weekly_groups
    /\ weekly_groups' = [w \in DOMAIN weekly_groups \cup {wk} |->
                            IF w = wk THEN None ELSE weekly_groups[w]]
    /\ UNCHANGED <<standings, weekly_results, groupVars, streakVars, ctx, clientVars>>

\* The entries of a week, one after the other.
RECURSIVE Flatten(_)
Flatten(groups) ==
    IF groups = <<>> THEN <<>> ELSE Head(groups) \o Flatten(Tail(groups))

\* A roster has at most one row in a week.
OneRowPerRoster(groups) ==
    LET es == Flatten(groups)
    IN  \A i \in DOMAIN es : \A j \in DOMAIN es :
            (i # j /\ HasRid(es[i]) /\ HasRid(es[j]))
                => es[i].roster_id # es[j].roster_id

\* The entries of E that are not of a roster that has a row in groups.
NewRosters(E, groups) ==
    LET es == Flatten(groups)
    IN  {e \in E : HasRid(e) =>
            \A i \in DOMAIN es : HasRid(es[i]) => es[i].roster_id # e.roster_id}

\* One more matchup group of week wk, of entries drawn from E.
AddGroupFrom(E, limit, wk) ==
    /\ NothingComputed
    /\ NumEntries(weekly_groups) < limit
    /\ \E g \in GroupsFrom(NewRosters(E, GroupsOf(weekly_groups, wk)),
                          Min(MaxGroupSize, limit - NumEntries(weekly_groups))) :
        weekly_groups' = [w \in DOMAIN weekly_groups \cup {wk} |->
                                IF w = wk
                                THEN Append(GroupsOf(weekly_groups, wk), g)
                                ELSE weekly_groups[w]]
    /\ UNCHANGED <<standings, weekly_results, groupVars, streakVars, ctx, clientVars>>

AddGroup(wk) == AddGroupFrom(WellFormedEntries, MaxEntries, wk)

AddMalformedGroup(wk) == AddGroupFrom(MalformedEntries, MaxMalformedEntries, wk)

\* A matchup group of a week of weekly groups that lack other weeks.
AddSparseGroup(wk) == AddGroupFrom(WellFormedEntries, MaxSparseEntries, wk)

\* A matchup group of weekly groups whose standings are compared with those
\* of every rearrangement.
AddArrangedGroup(wk) == AddGroupFrom(WellFormedEntries, MaxArrangedEntries, wk)

\* ff/report/collect.py: _compute_standings_with_groups(weekly_groups,
\* start_week, end_week), the call of the report build.
CoreStandings(start_week, end_week) ==
    /\ NothingComputed
    /\ standings' = compute_standings_with_groups(weekly_groups, start_week, end_week)
    /\ UNCHANGED <<weekly_groups, weekly_results, groupVars, streakVars, ctx, clientVars>>

\* scripts/weekly_report.py: the same call on scripts/lib/compute.py.
LibStandings(start_week, end_week) ==
    /\ NothingComputed
    /\ standings' = lib_compute_standings_with_groups(weekly_groups, start_week, end_week)
    /\ UNCHANGED <<weekly_groups, weekly_results, groupVars, streakVars, ctx, clientVars>>

\* ff/report/collect.py: _compute_weekly_results(weekly_groups, start_week,
\* end_week).
CoreWeeklyResults(start_week, end_week) ==
    /\ NothingComputed
    /\ weekly_results' = compute_weekly_results(weekly_groups, start_week, end_week)
    /\ UNCHANGED <<weekly_groups, standings, groupVars, streakVars, ctx, clientVars>>

\* scripts/weekly_report.py: the same call on scripts/lib/compute.py.
LibWeeklyResults(start_week, end_week) ==
    /\ NothingComputed
    /\ weekly_results' = lib_compute_weekly_results(weekly_groups, start_week, end_week)
    /\ UNCHANGED <<weekly_groups, standings, groupVars, streakVars, ctx, clientVars>>

\* ff/report/collect.py, build_weekly_context_original: the standings and the
\* outcome sequences of one build, from the same weekly_groups and weeks.
CoreBuild(start_week, end_week) ==
    /\ NothingComputed
    /\ standings' = compute_standings_with_groups(weekly_groups, start_week, end_week)
    /\ weekly_results' = compute_weekly_results(weekly_groups, start_week, end_week)
    /\ UNCHANGED <<weekly_groups, groupVars, streakVars, ctx, clientVars>>

CoreIdle == weekly_groups = <<>> /\ standings = NotCalled /\ weekly_results = NotCalled

GroupIdle == rows = <<>> /\ grouped = NotCalled

StreakIdle == res_list = <<>> /\ streak = NotCalled /\ longest = NotCalled

\* No RateLimiter has been constructed; time.monotonic() reads clock, which
\* is positive.
ClientIdle == clock = 1 /\ rate = [constructed |-> FALSE]

Init == CoreIdle /\ GroupIdle /\ StreakIdle /\ ctx = NoSection /\ ClientIdle

Standings ==
    \E start_week \in Weeks, end_week \in Weeks :
        \/ CoreStandings(start_week, end_week)
        \/ LibStandings(start_week, end_week)

WeeklyResults ==
    \E start_week \in Weeks, end_week \in Weeks :
        \/ CoreWeeklyResults(start_week, end_week)
        \/ LibWeeklyResults(start_week, end_week)

\* The standings of well-formed weekly groups.
Next ==
    \/ \E wk \in Weeks : AddGroup(wk)
    \/ Standings

Spec == Init /\ [][Next]_vars

\* The outcome sequences of well-formed weekly groups.
NextResults ==
    \/ \E wk \in Weeks : AddGroup(wk)
    \/ WeeklyResults

SpecResults == Init /\ [][NextResults]_vars

\* The standings and the outcome sequences of the same well-formed weekly
\* groups and weeks.
NextBuild ==
    \/ \E wk \in Weeks : AddGroup(wk)
    \/ \E start_week \in Weeks, end_week \in Weeks : CoreBuild(start_week, end_week)

SpecBuild == Init /\ [][NextBuild]_vars

\* The standings of ff/compute/core.py on well-formed weekly groups.
NextArranged ==
    \/ \E wk \in Weeks : AddArrangedGroup(wk)
    \/ \E start_week \in Weeks, end_week \in Weeks :
          CoreStandings(start_week, end_week)

SpecArranged == Init /\ [][NextArranged]_vars

\* The standings of rows that may lack a roster id or hold non-numeric
\* points, and of weeks without rows.
NextMalformed ==
    \/ \E wk \in Weeks : FetchWeek(wk)
    \/ \E wk \in Weeks : AddMalformedGroup(wk)
    \/ Standings

SpecMalformed == Init /\ [][NextMalformed]_vars

\* The standings and the outcome sequences of weekly groups in which a week
\* of the range may be missing, empty or None.
NextSparse ==
    \/ \E wk \in Weeks : FetchWeek(wk)
    \/ \E wk \in Weeks : NullWeek(wk)
    \/ \E wk \in Weeks : AddSparseGroup(wk)
    \/ Standings
    \/ WeeklyResults

SpecSparse == Init /\ [][NextSparse]_vars

(***************************************************************************)
(* Grouping the rows of one week.                                          *)
(***************************************************************************)

\* The fetched list holds one more row.
AddRow(row) ==
    /\ grouped = NotCalled
    /\ Len(rows) < MaxRows
    /\ OneRowPerRoster(<<Append(rows, row)>>)
    /\ rows' = Append(rows, row)
    /\ UNCHANGED <<grouped, coreVars, streakVars, ctx, clientVars>>

CoreGroupRows ==
    /\ grouped = NotCalled
    /\ grouped' = [called |-> TRUE, groups |-> group_rows(rows)]
    /\ UNCHANGED <<rows, coreVars, streakVars, ctx, clientVars>>

LibGroupRows ==
    /\ grouped = NotCalled
    /\ grouped' = [called |-> TRUE, groups |-> lib_group_rows(rows)]
    /\ UNCHANGED <<rows, coreVars, streakVars, ctx, clientVars>>

NextGroup ==
    \/ \E row \in RawRows : AddRow(row)
    \/ CoreGroupRows
    \/ LibGroupRows

SpecGroup == Init /\ [][NextGroup]_vars

(***************************************************************************)
(* The streak of one roster's outcome sequence.                            *)
(***************************************************************************)

\* The sequence grows by the game of a later week.
AppendOutcome(week, res) ==
    /\ streak = NotCalled /\ longest = NotCalled
    /\ res_list # <<>> => week > res_list[Len(res_list)][1]
    /\ res_list' = Append(res_list, <<week, res>>)
    /\ UNCHANGED <<streak, longest, coreVars, groupVars, ctx, clientVars>>

CurrentStreak(through_week) ==
    /\ streak = NotCalled /\ longest = NotCalled
    /\ streak' = [called |-> TRUE, through_week |-> through_week,
                  current |-> current_streak(res_list, through_week)]
    /\ UNCHANGED <<res_list, longest, coreVars, groupVars, ctx, clientVars>>

\* win_best, loss_best = _compute_longest_streaks(seq, report_week)
LongestStreaks(through_week) ==
    /\ streak = NotCalled /\ longest = NotCalled
    /\ longest' = [called |-> TRUE, through_week |-> through_week,
                   best |-> longest_streaks(res_list, through_week)]
    /\ UNCHANGED <<res_list, streak, coreVars, groupVars, ctx, clientVars>>

\* ff/report/collect.py, one row of the streaks table: the current and the
\* longest streaks of a roster's sequence through the report week.
StreakRow(through_week) ==
    /\ streak = NotCalled /\ longest = NotCalled
    /\ streak' = [called |-> TRUE, through_week |-> through_week,
                  current |-> current_streak(res_list, through_week)]
    /\ longest' = [called |-> TRUE, through_week |-> through_week,
                   best |-> longest_streaks(res_list, through_week)]
    /\ UNCHANGED <<res_list, coreVars, groupVars, ctx, clientVars>>

NextStreak ==
    \/ \E week \in SeasonWeeks, res \in Outcomes : AppendOutcome(week, res)
    \/ \E through_week \in 0..MaxSeasonWeek : CurrentStreak(through_week)
    \/ \E through_week \in 0..MaxSeasonWeek : LongestStreaks(through_week)

SpecStreak == Init /\ [][NextStreak]_vars

\* The current and the longest streaks of the same sequence and week.
NextStreakRow ==
    \/ \E week \in SeasonWeeks, res \in Outcomes : AppendOutcome(week, res)
    \/ \E through_week \in 0..MaxSeasonWeek : StreakRow(through_week)

SpecStreakRow == Init /\ [][NextStreakRow]_vars

(***************************************************************************)
(* The sections of the report context that are derived from                *)
(* weekly_groups.  ctx holds the section a build has computed.  The league *)
(* has the rosters RosterIds; roster_directory lists them by ascending     *)
(* roster id.  A report is built with report_week >= start_week.           *)
(***************************************************************************)

\* [r["roster_id"] for r in roster_directory]
RECURSIVE SortedIds(_)
SortedIds(S) ==
    IF S = {} THEN <<>>
    ELSE LET m == CHOOSE x \in S : \A y \in S : x <= y
         IN  <<m>> \o SortedIds(S \ {m})

roster_ids_sorted == SortedIds(RosterIds)

\* for wk in range(start_week, report_week + 1):
\*     for _, entries in (weekly_groups.get(wk, {}) or {}).items():
\* the groups the two loops visit, in order, each with its week and its key
\* (the model's key of a group is its place in the week).
RECURSIVE GroupsInRange(_, _, _)
GroupsInRange(wg, wk, last) ==
    IF wk > last THEN <<>>
    ELSE [i \in DOMAIN GroupsOf(wg, wk) |->
             [wk |-> wk, mid |-> i, entries |-> GroupsOf(wg, wk)[i]]]
         \o GroupsInRange(wg, wk + 1, last)

\* matrix.get(key, (0, 0)) and the like.
Get(f, key, default) == IF key \in DOMAIN f THEN f[key] ELSE default

\* matrix[key] = cur
Put(f, key, value) ==
    [k \in DOMAIN f \cup {key} |-> IF k = key THEN value ELSE f[k]]

\* f"{wins_a}-{wins_b}", as the pieces of the formatted string.
WinLossCell(w, l) == <<w, "-", l>>

\* The diagonal sentinel "-".
DiagonalCell == <<"-">>

\* build_weekly_context_original, the step of the matrix loop in which the
\* key is always (min, max): the winner of a matchup whose entries come
\* larger id first is credited to the smaller id.
MatrixStepSortedKey(matrix, entries) ==
    IF Len(entries) # 2 THEN matrix
    ELSE LET aid == entries[1].roster_id
             bid == entries[2].roster_id
             ap == Float(entries[1])
             bp == Float(entries[2])
             key == <<Min(aid, bid), Max(aid, bid)>>
             cur == Get(matrix, key, <<0, 0>>)
         IN  Put(matrix, key,
                 IF ap > bp THEN <<cur[1] + 1, cur[2]>>
                 ELSE IF bp > ap THEN <<cur[1], cur[2] + 1>>
                 ELSE cur)

\* build_weekly_context_original: the body of the matrix loop.
MatrixStep(matrix, entries) ==
    IF Len(entries) # 2 THEN matrix
    ELSE LET aid == entries[1].roster_id
             bid == entries[2].roster_id
             ap == Float(entries[1])
             bp == Float(entries[2])
             key == <<aid, bid>>
             cur == Get(matrix, key, <<0, 0>>)
         IN  Put(matrix, key,
                 IF ap > bp THEN <<cur[1] + 1, cur[2]>>
                 ELSE IF bp > ap THEN <<cur[1], cur[2] + 1>>
                 ELSE cur)

RECURSIVE MatrixLoop(_, _)
MatrixLoop(matrix, gs) ==
    IF gs = <<>> THEN matrix
    ELSE MatrixLoop(MatrixStep(matrix, Head(gs).entries), Tail(gs))

\* A cell read from the record of its own ordered pair only, without the
\* record of the reversed pair.
OriginalCellOwnKey(matrix, rid_a, rid_b) ==
    IF rid_a = rid_b THEN DiagonalCell
    ELSE LET rec_ab == Get(matrix, <<rid_a, rid_b>>, <<0, 0>>)
         IN  WinLossCell(rec_ab[1], rec_ab[2])

\* build_weekly_context_original: one cell of h2h_grid.
OriginalCell(matrix, rid_a, rid_b) ==
    IF rid_a = rid_b THEN DiagonalCell
    ELSE LET rec_ab == Get(matrix, <<rid_a, rid_b>>, <<0, 0>>)
             rec_ba == Get(matrix, <<rid_b, rid_a>>, <<0, 0>>)
         IN  WinLossCell(rec_ab[1] + rec_ba[2], rec_ab[2] + rec_ba[1])

\* build_weekly_context_original: the head-to-head grid, as its order of
\* rows and columns and its cells.
original_h2h_grid(wg, start_week, report_week) ==
    LET matrix == MatrixLoop(<<>>, GroupsInRange(wg, start_week, report_week))
        order == roster_ids_sorted
        ids == {order[i] : i \in DOMAIN order}
    IN  [order |-> order,
         cells |-> [xy \in ids \X ids |-> OriginalCell(matrix, xy[1], xy[2])]]

\* StatisticsCalculator.calculate_h2h_grid: the body of the records loop.
H2HRecordsStep(h2h_records, entries) ==
    IF Len(entries) # 2 THEN h2h_records
    ELSE LET aid == entries[1].roster_id
             bid == entries[2].roster_id
             ap == Float(entries[1])
             bp == Float(entries[2])
             key == <<Min(aid, bid), Max(aid, bid)>>
             rec == Get(h2h_records, key, [a_wins |-> 0, b_wins |-> 0])
         IN  Put(h2h_records, key,
                 IF ap > bp
                 THEN IF aid < bid THEN [rec EXCEPT !.a_wins = @ + 1]
                      ELSE [rec EXCEPT !.b_wins = @ + 1]
                 ELSE IF bp > ap
                 THEN IF aid < bid THEN [rec EXCEPT !.b_wins = @ + 1]
                      ELSE [rec EXCEPT !.a_wins = @ + 1]
                 ELSE rec)

RECURSIVE H2HRecordsLoop(_, _)
H2HRecordsLoop(h2h_records, gs) ==
    IF gs = <<>> THEN h2h_records
    ELSE H2HRecordsLoop(H2HRecordsStep(h2h_records, Head(gs).entries), Tail(gs))

\* StatisticsCalculator.calculate_h2h_grid: one cell.
CalculatorCell(h2h_records, rid1, rid2) ==
    IF rid1 = rid2 THEN DiagonalCell
    ELSE LET rec == Get(h2h_records, <<Min(rid1, rid2), Max(rid1, rid2)>>,
                        [a_wins |-> 0, b_wins |-> 0])
         IN  IF rid1 < rid2 THEN WinLossCell(rec.a_wins, rec.b_wins)
             ELSE WinLossCell(rec.b_wins, rec.a_wins)

calculate_h2h_grid(wg, start_week, report_week) ==
    LET h2h_records ==
            H2HRecordsLoop(<<>>, GroupsInRange(wg, start_week, report_week))
        order == roster_ids_sorted
        ids == {order[i] : i \in DOMAIN order}
    IN  [order |-> order,
         cells |-> [xy \in ids \X ids |->
                        CalculatorCell(h2h_records, xy[1], xy[2])]]

\* scripts/weekly_report.py: the body of the pair_records loop; the record
\* of <<x, y>> is (W, L, T) of x against y.
PairRecordsStep(pair_records, entries) ==
    IF Len(entries) # 2 THEN pair_records
    ELSE LET ra == entries[1].roster_id
             rb == entries[2].roster_id
             ap == Float(entries[1])
             bp == Float(entries[2])
             a == Get(pair_records, <<ra, rb>>, <<0, 0, 0>>)
             b == Get(pair_records, <<rb, ra>>, <<0, 0, 0>>)
         IN  IF ap > bp
             THEN Put(Put(pair_records, <<ra, rb>>, <<a[1] + 1, a[2], a[3]>>),
                      <<rb, ra>>, <<b[1], b[2] + 1, b[3]>>)
             ELSE IF bp > ap
             THEN Put(Put(pair_records, <<ra, rb>>, <<a[1], a[2] + 1, a[3]>>),
                      <<rb, ra>>, <<b[1] + 1, b[2], b[3]>>)
             ELSE Put(Put(pair_records, <<ra, rb>>, <<a[1], a[2], a[3] + 1>>),
                      <<rb, ra>>, <<b[1], b[2], b[3] + 1>>)

RECURSIVE PairRecordsLoop(_, _)
PairRecordsLoop(pair_records, gs) ==
    IF gs = <<>> THEN pair_records
    ELSE PairRecordsLoop(PairRecordsStep(pair_records, Head(gs).entries), Tail(gs))

\* scripts/weekly_report.py: _fmt_record.
_fmt_record(tup) ==
    IF tup[1] + tup[2] + tup[3] = 0 THEN <<"--">>
    ELSE IF tup[3] # 0 THEN <<tup[1], "-", tup[2], "-", tup[3]>>
    ELSE <<tup[1], "-", tup[2]>>

\* scripts/weekly_report.py: the grid; its rows and columns are the rosters
\* of the standings, in standings order.
script_h2h_grid(wg, start_week, report_week) ==
    LET table == lib_compute_standings_with_groups(wg, start_week, report_week).table
        order_rids == [i \in DOMAIN table |-> table[i].roster_id]
        ids == {order_rids[i] : i \in DOMAIN order_rids}
        pair_records ==
            PairRecordsLoop(<<>>, GroupsInRange(wg, start_week, report_week))
    IN  [order |-> order_rids,
         cells |-> [xy \in ids \X ids |->
                        IF xy[1] = xy[2] THEN DiagonalCell
                        ELSE _fmt_record(Get(pair_records, xy, <<0, 0, 0>>))]]

H2HSection(impl, start_week, report_week, grid) ==
    [section |-> "h2h_grid", impl |-> impl, start_week |-> start_week,
     report_week |-> report_week, order |-> grid.order, cells |-> grid.cells]

OriginalH2HGrid(start_week, report_week) ==
    /\ NothingComputed
    /\ ctx' = H2HSection("original", start_week, report_week,
                  original_h2h_grid(weekly_groups, start_week, report_week))
    /\ UNCHANGED <<coreVars, groupVars, streakVars, clientVars>>

CalculatorH2HGrid(start_week, report_week) ==
    /\ NothingComputed
    /\ ctx' = H2HSection("calculator", start_week, report_week,
                  calculate_h2h_grid(weekly_groups, start_week, report_week))
    /\ UNCHANGED <<coreVars, groupVars, streakVars, clientVars>>

ScriptH2HGrid(start_week, report_week) ==
    /\ NothingComputed
    /\ ctx' = H2HSection("script", start_week, report_week,
                  script_h2h_grid(weekly_groups, start_week, report_week))
    /\ UNCHANGED <<coreVars, groupVars, streakVars, clientVars>>

\* The week ranges of a report: start_week <= report_week.
ReportRanges == {se \in Weeks \X Weeks : se[1] <= se[2]}

\* The head-to-head grids of ff/report/collect.py.
NextGrid ==
    \/ \E wk \in Weeks : AddGroup(wk)
    \/ \E se \in ReportRanges : OriginalH2HGrid(se[1], se[2])
    \/ \E se \in ReportRanges : CalculatorH2HGrid(se[1], se[2])

SpecGrid == Init /\ [][NextGrid]_vars

\* Every head-to-head grid the program builds.
NextAllGrids ==
    \/ NextGrid
    \/ \E se \in ReportRanges : ScriptH2HGrid(se[1], se[2])

SpecAllGrids == Init /\ [][NextAllGrids]_vars

(***************************************************************************)
(* All-play and median records.  Wins and losses are held in halves: 2 is  *)
(* one win, 1 is the 0.5 of a split; round(x, 2) leaves such values as     *)
(* they are.                                                               *)
(***************************************************************************)

\* wk_points[rid] = float(e.get("points", 0) or 0.0), entry after entry.
RECURSIVE PointsOfEntries(_, _)
PointsOfEntries(wk_points, es) ==
    IF es = <<>> THEN wk_points
    ELSE PointsOfEntries(Put(wk_points, Head(es).roster_id, Float(Head(es))),
                         Tail(es))

\* week_team_points[wk]
WeekPoints(wg, wk) == PointsOfEntries(<<>>, Flatten(GroupsOf(wg, wk)))

\* sorted(scores)
RECURSIVE InsertInt(_, _)
InsertInt(sorted, x) ==
    IF sorted = <<>> THEN <<x>>
    ELSE IF x < Head(sorted) THEN <<x>> \o sorted
    ELSE <<Head(sorted)>> \o InsertInt(Tail(sorted), x)

RECURSIVE SortInts(_, _)
SortInts(sorted, rest) ==
    IF rest = <<>> THEN sorted
    ELSE SortInts(InsertInt(sorted, Head(rest)), Tail(rest))

\* The median of a non-empty list of scores: the middle one, or
\* 0.5 * (the two middle ones); the model's scores are even, so the half
\* is exact.
Median(scores) ==
    LET scores_sorted == SortInts(<<>>, scores)
        n == Len(scores)
        mid == n \div 2
    IN  IF n % 2 = 1 THEN scores_sorted[mid + 1]
        ELSE (scores_sorted[mid] + scores_sorted[mid + 1]) \div 2

\* list(pts_map.values())
ValuesOf(pts_map) ==
    LET order == SortedIds(DOMAIN pts_map)
    IN  [i \in DOMAIN order |-> pts_map[order[i]]]

NoRecord == [w |-> 0, l |-> 0]

\* AllPlayOfWeek with ties = sum(1 for s in scores if s == score): the
\* roster's own score is counted as a tie.
AllPlayOfWeekOwnTie(pts_map, rid) ==
    LET n == Cardinality(DOMAIN pts_map)
        wins == Cardinality({r \in DOMAIN pts_map : pts_map[r] < pts_map[rid]})
        ties == Cardinality({r \in DOMAIN pts_map : pts_map[r] = pts_map[rid]})
        all_play_w == 2 * wins + ties
    IN  [w |-> all_play_w, l |-> 2 * (n - 1) - all_play_w]

\* AllPlayOfWeek with all_play_l counted on its own as the strictly higher
\* scores, instead of (n - 1) - all_play_w.
AllPlayOfWeekStrictLosses(pts_map, rid) ==
    LET wins == Cardinality({r \in DOMAIN pts_map : pts_map[r] < pts_map[rid]})
        ties == Cardinality({r \in DOMAIN pts_map : pts_map[r] = pts_map[rid]}) - 1
        losses == Cardinality({r \in DOMAIN pts_map : pts_map[r] > pts_map[rid]})
    IN  [w |-> 2 * wins + ties, l |-> 2 * losses]

\* wins, ties, all_play_w and all_play_l of one roster in one week.
AllPlayOfWeek(pts_map, rid) ==
    LET n == Cardinality(DOMAIN pts_map)
        wins == Cardinality({r \in DOMAIN pts_map : pts_map[r] < pts_map[rid]})
        ties == Cardinality({r \in DOMAIN pts_map : pts_map[r] = pts_map[rid]}) - 1
        all_play_w == 2 * wins + ties
    IN  [w |-> all_play_w, l |-> 2 * (n - 1) - all_play_w]

\* The median comparison of one roster in one week.
MedianOfWeek(pts_map, rid) ==
    LET median_val == Median(ValuesOf(pts_map))
    IN  IF pts_map[rid] > median_val THEN [w |-> 2, l |-> 0]
        ELSE IF pts_map[rid] < median_val THEN [w |-> 0, l |-> 2]
        ELSE [w |-> 1, l |-> 1]

AddRecord(a, b) == [w |-> a.w + b.w, l |-> a.l + b.l]

\* for wk, pts_map in week_team_points.items(): ... cumulative_all_play
RECURSIVE CumulativeAllPlay(_, _, _, _)
CumulativeAllPlay(wg, wk, last, cumulative) ==
    IF wk > last THEN cumulative
    ELSE LET pts_map == WeekPoints(wg, wk)
         IN  CumulativeAllPlay(wg, wk + 1, last,
                 IF Cardinality(DOMAIN pts_map) < 2 THEN cumulative
                 ELSE [rid \in DOMAIN cumulative |->
                          IF rid \in DOMAIN pts_map
                          THEN AddRecord(cumulative[rid], AllPlayOfWeek(pts_map, rid))
                          ELSE cumulative[rid]])

\* for wk, pts_map in week_team_points.items(): ... cumulative_median
RECURSIVE CumulativeMedian(_, _, _, _)
CumulativeMedian(wg, wk, last, cumulative) ==
    IF wk > last THEN cumulative
    ELSE LET pts_map == WeekPoints(wg, wk)
         IN  CumulativeMedian(wg, wk + 1, last,
                 IF Cardinality(DOMAIN pts_map) < 2 THEN cumulative
                 ELSE [rid \in DOMAIN cumulative |->
                          IF rid \in DOMAIN pts_map
                          THEN AddRecord(cumulative[rid], MedianOfWeek(pts_map, rid))
                          ELSE cumulative[rid]])

\* build_weekly_context_original: all_play_records and median_records, the
\* (w, l) of each roster of roster_directory.
original_all_play_and_median(wg, start_week, report_week) ==
    [all_play |-> CumulativeAllPlay(wg, start_week, report_week,
                                    [rid \in RosterIds |-> NoRecord]),
     median |-> CumulativeMedian(wg, start_week, report_week,
                                 [rid \in RosterIds |-> NoRecord])]

\* StatisticsCalculator: week_scores of a week, entry after entry.
WeekScores(wg, wk) ==
    LET es == Flatten(GroupsOf(wg, wk)) IN [i \in DOMAIN es |-> Float(es[i])]

\* StatisticsCalculator: the median records after the entries es of a week
\* whose median is week_median (median_w += 1 if points >= week_median).
RECURSIVE CalculatorMedianEntries(_, _, _)
CalculatorMedianEntries(median_records, es, week_median) ==
    IF es = <<>> THEN median_records
    ELSE LET rid == Head(es).roster_id
             rec == Get(median_records, rid, NoRecord)
         IN  CalculatorMedianEntries(
                 Put(median_records, rid,
                     IF Float(Head(es)) >= week_median
                     THEN [rec EXCEPT !.w = @ + 2]
                     ELSE [rec EXCEPT !.l = @ + 2]),
                 Tail(es), week_median)

RECURSIVE CalculatorMedianWeeks(_, _, _, _)
CalculatorMedianWeeks(wg, wk, last, median_records) ==
    IF wk > last THEN median_records
    ELSE CalculatorMedianWeeks(wg, wk + 1, last,
             IF WeekScores(wg, wk) = <<>> THEN median_records
             ELSE CalculatorMedianEntries(median_records,
                      Flatten(GroupsOf(wg, wk)), Median(WeekScores(wg, wk))))

\* StatisticsCalculator: all_play_w and all_play_l of rid over the weeks;
\* equal scores count for nothing.
RECURSIVE CalculatorAllPlayWeeks(_, _, _, _, _)
CalculatorAllPlayWeeks(wg, wk, last, rid, rec) ==
    IF wk > last THEN rec
    ELSE LET es == Flatten(GroupsOf(wg, wk))
             mine == {i \in DOMAIN es : es[i].roster_id = rid}
             Beats == {ij \in mine \X (DOMAIN es) : Float(es[ij[1]]) > Float(es[ij[2]])}
             Loses == {ij \in mine \X (DOMAIN es) : Float(es[ij[1]]) < Float(es[ij[2]])}
         IN  CalculatorAllPlayWeeks(wg, wk + 1, last, rid,
                 [w |-> rec.w + 2 * Cardinality(Beats),
                  l |-> rec.l + 2 * Cardinality(Loses)])

\* StatisticsCalculator.calculate_all_play_and_median_records
calculate_all_play_and_median_records(wg, start_week, report_week) ==
    LET gs == GroupsInRange(wg, start_week, report_week)
        roster_scores ==
            UNION {{gs[i].entries[j].roster_id : j \in DOMAIN gs[i].entries} :
                      i \in DOMAIN gs}
    IN  [all_play |-> [rid \in roster_scores |->
                          CalculatorAllPlayWeeks(wg, start_week, report_week,
                                                 rid, NoRecord)],
         median |-> CalculatorMedianWeeks(wg, start_week, report_week, <<>>)]

\* build_weekly_context: the all-play and median records of the collector
\* that USE_REFACTORED_COLLECTOR selects.
build_weekly_context(use_refactored, wg, start_week, report_week) ==
    IF use_refactored
    THEN calculate_all_play_and_median_records(wg, start_week, report_week)
    ELSE original_all_play_and_median(wg, start_week, report_week)

RecordsSection(impl, start_week, report_week, recs) ==
    [section |-> "all_play_median", impl |-> impl, start_week |-> start_week,
     report_week |-> report_week, all_play |-> recs.all_play,
     median |-> recs.median]

OriginalAllPlayAndMedian(start_week, report_week) ==
    /\ NothingComputed
    /\ ctx' = RecordsSection("original", start_week, report_week,
                  original_all_play_and_median(weekly_groups, start_week,
                                               report_week))
    /\ UNCHANGED <<coreVars, groupVars, streakVars, clientVars>>

CalculatorAllPlayAndMedian(start_week, report_week) ==
    /\ NothingComputed
    /\ ctx' = RecordsSection("calculator", start_week, report_week,
                  calculate_all_play_and_median_records(weekly_groups, start_week,
                                                        report_week))
    /\ UNCHANGED <<coreVars, groupVars, streakVars, clientVars>>

\* The all-play and median records of build_weekly_context_original.
NextAllPlay ==
    \/ \E wk \in Weeks : AddGroup(wk)
    \/ \E se \in ReportRanges : OriginalAllPlayAndMedian(se[1], se[2])

SpecAllPlay == Init /\ [][NextAllPlay]_vars

\* The same records of both builders.
NextMedian ==
    \/ NextAllPlay
    \/ \E se \in ReportRanges : CalculatorAllPlayAndMedian(se[1], se[2])

SpecMedian == Init /\ [][NextMedian]_vars

(***************************************************************************)
(* Margin summary.                                                         *)
(***************************************************************************)
Abs(x) == IF x < 0 THEN -x ELSE x

\* One record of matchup_margin_details.
MarginDetail(g) ==
    LET a_i == g.entries[1]
        b_i == g.entries[2]
        ap_i == Float(a_i)
        bp_i == Float(b_i)
        winner == IF bp_i > ap_i THEN b_i ELSE a_i
        loser == IF bp_i > ap_i THEN a_i ELSE b_i
    IN  [week |-> g.wk, matchup_id |-> g.mid,
         margin |-> Round2(Abs(ap_i - bp_i)),
         tie |-> (ap_i = bp_i),
         winner |-> [roster_id |-> winner.roster_id, points |-> Float(winner)],
         loser |-> [roster_id |-> loser.roster_id, points |-> Float(loser)]]

\* matchup_margin_details of the groups gs.
RECURSIVE MarginDetails(_)
MarginDetails(gs) ==
    IF gs = <<>> THEN <<>>
    ELSE IF Len(Head(gs).entries) # 2 THEN MarginDetails(Tail(gs))
    ELSE <<MarginDetail(Head(gs))>> \o MarginDetails(Tail(gs))

\* max(games, key=lambda d: d["margin"]): the first of the largest.
LargestOf(games) ==
    games[CHOOSE i \in DOMAIN games :
              /\ \A j \in DOMAIN games : games[j].margin <= games[i].margin
              /\ \A j \in 1..(i - 1) : games[j].margin < games[i].margin]

\* min(games, key=lambda d: d["margin"]): the first of the smallest.
SmallestOf(games) ==
    games[CHOOSE i \in DOMAIN games :
              /\ \A j \in DOMAIN games : games[j].margin >= games[i].margin
              /\ \A j \in 1..(i - 1) : games[j].margin > games[i].margin]

\* round(sum(g["margin"] for g in games) / len(games), 2)
AverageMargin(games) ==
    RoundHalfEven(SumSeq([i \in DOMAIN games |-> games[i].margin]),
                  10 * Len(games)) * 10

Extremes(games) ==
    [largest |-> LargestOf(games), smallest |-> SmallestOf(games),
     average_margin |-> AverageMargin(games)]

\* build_weekly_context_original: margin_summary; a key is there only when
\* its games are.
margin_summary(wg, start_week, report_week) ==
    LET details == MarginDetails(GroupsInRange(wg, start_week, report_week))
        InReportWeek(d) == d.week = report_week
        week_games == SelectSeq(details, InReportWeek)
        keys == (IF week_games # <<>> THEN {"week"} ELSE {})
                    \cup (IF details # <<>> THEN {"season_through"} ELSE {})
    IN  [k \in keys |-> IF k = "week" THEN Extremes(week_games)
                        ELSE Extremes(details)]

MarginSummary(start_week, report_week) ==
    /\ NothingComputed
    /\ ctx' = [section |-> "margin_summary", start_week |-> start_week,
               report_week |-> report_week,
               margin_summary |-> margin_summary(weekly_groups, start_week,
                                                 report_week)]
    /\ UNCHANGED <<coreVars, groupVars, streakVars, clientVars>>

NextMargin ==
    \/ \E wk \in Weeks : AddGroup(wk)
    \/ \E se \in ReportRanges : MarginSummary(se[1], se[2])

SpecMargin == Init /\ [][NextMargin]_vars

(***************************************************************************)
(* Division standings and playoff seeding of ff/report/collect.py:         *)
(* StandingsCalculator.compute_division_standings,                         *)
(* PlayoffCalculator.compute_playoff_standings, and the same code inside   *)
(* build_weekly_context_original.                                          *)
(***************************************************************************)

\* The values of a roster's settings["division"] when it is set.
Divisions == {0, 1, 2}

\* rosters: the rosters of the league with their settings["division"].  A
\* roster whose division is None (or that has no settings) is not in the
\* domain.
RosterDivisions == UNION {[S -> Divisions] : S \in SUBSET RosterIds}

MaxPlayoffTeams == 3

\* league settings: playoff_teams
PlayoffTeams == 0..MaxPlayoffTeams

\* roster_division: dict[int, int]
\*     if div is not None: roster_division[rid] = int(div)
roster_division_of(rosters) == rosters

\* The model's index of division div in an insertion-ordered dict keyed by
\* division (0 when the key is absent).
DivIndexOf(d, div) ==
    IF \E i \in DOMAIN d : d[i].division_id = div
    THEN CHOOSE i \in DOMAIN d : d[i].division_id = div
    ELSE 0

\* div = roster_division.get(rid); if div is None: continue
SkipsDivision(roster_division, rid) ==
    rid \notin DOMAIN roster_division

\* by_div.setdefault(div, []).append(rec)
ByDivStep(by_div, roster_division, rec) ==
    IF SkipsDivision(roster_division, rec.roster_id) THEN by_div
    ELSE LET div == roster_division[rec.roster_id]
             i == DivIndexOf(by_div, div)
         IN  IF i = 0
             THEN Append(by_div, [division_id |-> div, rows |-> <<rec>>])
             ELSE [by_div EXCEPT ![i].rows = Append(@, rec)]

RECURSIVE ByDivLoop(_, _, _)
ByDivLoop(by_div, roster_division, recs) ==
    IF recs = <<>> THEN by_div
    ELSE ByDivLoop(ByDivStep(by_div, roster_division, Head(recs)),
                   roster_division, Tail(recs))

\* for rank, rec in enumerate(rows, start=1): {"rank": rank, **rec}
Ranked(div_rows) ==
    [i \in DOMAIN div_rows |-> [rank |-> i, roster_id |-> div_rows[i].roster_id,
                            win_pct |-> div_rows[i].win_pct,
                            points_for |-> div_rows[i].points_for]]

\* division_names.get(div, f"Division {div}"), with no name configured.
DivisionName(div) == <<"Division ", div>>

\* division_standings.sort(key=lambda d: d["division_id"])
RECURSIVE InsertDivision(_, _)
InsertDivision(sorted, d) ==
    IF sorted = <<>> THEN <<d>>
    ELSE IF d.division_id < Head(sorted).division_id THEN <<d>> \o sorted
    ELSE <<Head(sorted)>> \o InsertDivision(Tail(sorted), d)

RECURSIVE SortDivisions(_, _)
SortDivisions(sorted, rest) ==
    IF rest = <<>> THEN sorted
    ELSE SortDivisions(InsertDivision(sorted, Head(rest)), Tail(rest))

compute_division_standings(table, rosters) ==
    LET roster_division == roster_division_of(rosters)
        division_count_active ==
            Cardinality({roster_division[r] : r \in DOMAIN roster_division})
        by_div == ByDivLoop(<<>>, roster_division, table)
    IN  IF division_count_active > 0
        THEN SortDivisions(<<>>,
                 [i \in DOMAIN by_div |->
                      [division_id |-> by_div[i].division_id,
                       division_name |-> DivisionName(by_div[i].division_id),
                       rows |-> Ranked(by_div[i].rows)]])
        ELSE <<>>

\* (rec["win_pct"], rec["points_for"]) > (cur["win_pct"], cur["points_for"])
BetterRecord(rec, cur) ==
    \/ rec.win_pct > cur.win_pct
    \/ rec.win_pct = cur.win_pct /\ rec.points_for > cur.points_for

\* cur = div_winners.get(div)
\* if not cur: div_winners[div] = rec
\* elif (rec ...) > (cur ...): div_winners[div] = rec
DivWinnersStep(div_winners, roster_division, rec) ==
    IF SkipsDivision(roster_division, rec.roster_id) THEN div_winners
    ELSE LET div == roster_division[rec.roster_id]
             i == DivIndexOf(div_winners, div)
         IN  IF i = 0
             THEN Append(div_winners, [division_id |-> div, rec |-> rec])
             ELSE IF BetterRecord(rec, div_winners[i].rec)
             THEN [div_winners EXCEPT ![i].rec = rec]
             ELSE div_winners

RECURSIVE DivWinnersLoop(_, _, _)
DivWinnersLoop(div_winners, roster_division, recs) ==
    IF recs = <<>> THEN div_winners
    ELSE DivWinnersLoop(DivWinnersStep(div_winners, roster_division,
                                       Head(recs)),
                        roster_division, Tail(recs))

\* division_names.get(div, f"Division {div}") if div else "-"
DivisionLabel(roster_division, rid) ==
    IF rid \in DOMAIN roster_division /\ roster_division[rid] # 0
    THEN DivisionName(roster_division[rid])
    ELSE <<"-">>

\* seeds = list(div_winners.values()) + others
SeedOrder(winners, others) == winners \o others

\* others as the whole standings, the division winners among them.
PlayoffOthersAll(table, winners_set) == table

\* others = [rec for rec in standings if rec.get("roster_id") not in winners_set]
PlayoffOthers(table, winners_set) ==
    LET NotWinner(rec) == rec.roster_id \notin winners_set
    IN  SelectSeq(table, NotWinner)

compute_playoff_standings(table, rosters, playoff_teams) ==
    LET roster_division == roster_division_of(rosters)
        div_winners == DivWinnersLoop(<<>>, roster_division, table)
        winners == [i \in DOMAIN div_winners |-> div_winners[i].rec]
        winners_set == {winners[i].roster_id : i \in DOMAIN winners}
        others == PlayoffOthers(table, winners_set)
        all_seeds == SeedOrder(winners, others)
        seeds == SubSeq(all_seeds, 1, Min(playoff_teams, Len(all_seeds)))
    IN  IF playoff_teams <= 0 \/ table = <<>> THEN <<>>
        ELSE [i \in DOMAIN seeds |->
                 [seed |-> i, roster_id |-> seeds[i].roster_id,
                  division |-> DivisionLabel(roster_division,
                                             seeds[i].roster_id),
                  win_pct |-> seeds[i].win_pct,
                  points_for |-> seeds[i].points_for,
                  type |-> IF seeds[i].roster_id \in winners_set
                           THEN "Division Winner" ELSE "Wildcard"]]

\* The values of win_pct (in 1/10000) and of the rounded points_for (in
\* thousandths) of the rows of a standings table.
TableWinPcts == {0, 5000, 10000}

TablePointsFor == {0, 10}

\* standings: the tables compute_standings_with_groups returns, one row per
\* roster of a set of rosters, sorted by its key; the rows are held with the
\* fields the division and playoff code reads.
StandingsTables ==
    UNION {{SortRows(<<>>, [i \in 1..Cardinality(S) |->
                [roster_id |-> SortedIds(S)[i],
                 win_pct |-> f[SortedIds(S)[i]][1],
                 points_for |-> f[SortedIds(S)[i]][2]]]) :
            f \in [S -> TableWinPcts \X TablePointsFor]} :
           S \in SUBSET RosterIds}

\* The division and playoff sections of a report whose standings are table.
DivisionSection(impl, table, rosters, playoff_teams) ==
    [section |-> "divisions", impl |-> impl, rosters |-> rosters,
     playoff_teams |-> playoff_teams, standings |-> table,
     division_standings |-> compute_division_standings(table, rosters),
     playoff_standings |->
         compute_playoff_standings(table, rosters, playoff_teams)]

\* build_weekly_context_original, on the standings, the rosters and the
\* playoff_teams of the league.
OriginalDivisions ==
    /\ NothingComputed
    /\ \E table \in StandingsTables, rosters \in RosterDivisions,
          playoff_teams \in PlayoffTeams :
            ctx' = DivisionSection("original", table, rosters, playoff_teams)
    /\ UNCHANGED <<coreVars, groupVars, streakVars, clientVars>>

\* StandingsCalculator.compute_division_standings and
\* PlayoffCalculator.compute_playoff_standings
CalculatorDivisions ==
    /\ NothingComputed
    /\ \E table \in StandingsTables, rosters \in RosterDivisions,
          playoff_teams \in PlayoffTeams :
            ctx' = DivisionSection("calculator", table, rosters,
                                   playoff_teams)
    /\ UNCHANGED <<coreVars, groupVars, streakVars, clientVars>>

NextDivisions == OriginalDivisions \/ CalculatorDivisions

SpecDivisions == Init /\ [][NextDivisions]_vars

(***************************************************************************)
(* The details cell of a Weekly Results row: ff/report/collect.py,         *)
(* _order_and_wrap and the flags build_weekly_context appends.  A flag     *)
(* "key=value" is held as its pieces <<key, "=", value>>; a cell is the    *)
(* sequence of its lines (the parts between "<br>"), a line the sequence   *)
(* of its flags (the parts between "; ").                                  *)
(***************************************************************************)

\* MarkdownConfig.LINE_WIDTH (WIDTH = 100 in the function of build_weekly_context)
LINE_WIDTH == 100

MaxFlags == 5

\* The keys of the flags, in the order of Python's string comparison.
FlagKeys ==
    <<
      "bad_beat", "blowout", "broke_opponent_streak", "close_game",
      "division_game", "evened_series", "extended_win_streak",
      "highest_loser_score_week", "lowest_winner_score_week", "margin_pts",
      "nail_biter", "opponent_prev_streak_len",
      "opponent_prev_streak_type", "season_series_sweep", "shootout",
      "slugfest", "upset", "winner_highest_score_week"
    >>

\* len(s) of the keys and the values of the flags.
StrLen ==
    ("bad_beat" :> 8) @@
    ("blowout" :> 7) @@
    ("broke_opponent_streak" :> 21) @@
    ("close_game" :> 10) @@
    ("division_game" :> 13) @@
    ("evened_series" :> 13) @@
    ("extended_win_streak" :> 19) @@
    ("highest_loser_score_week" :> 24) @@
    ("lowest_winner_score_week" :> 24) @@
    ("margin_pts" :> 10) @@
    ("nail_biter" :> 10) @@
    ("opponent_prev_streak_len" :> 24) @@
    ("opponent_prev_streak_type" :> 25) @@
    ("season_series_sweep" :> 19) @@
    ("shootout" :> 8) @@
    ("slugfest" :> 8) @@
    ("upset" :> 5) @@
    ("winner_highest_score_week" :> 25) @@
    ("12.50" :> 5) @@
    ("2" :> 1) @@
    ("4" :> 1) @@
    ("W" :> 1) @@
    ("yes" :> 3)

\* The flags a row's code appends, in the order of its appends.
RowFlags ==
    <<
      <<"blowout", "=", "yes">>,
      <<"nail_biter", "=", "yes">>,
      <<"close_game", "=", "yes">>,
      <<"shootout", "=", "yes">>,
      <<"slugfest", "=", "yes">>,
      <<"division_game", "=", "yes">>,
      <<"upset", "=", "yes">>,
      <<"winner_highest_score_week", "=", "yes">>,
      <<"bad_beat", "=", "yes">>,
      <<"extended_win_streak", "=", "4">>,
      <<"broke_opponent_streak", "=", "yes">>,
      <<"opponent_prev_streak_type", "=", "W">>,
      <<"opponent_prev_streak_len", "=", "2">>,
      <<"season_series_sweep", "=", "yes">>,
      <<"evened_series", "=", "yes">>,
      <<"margin_pts", "=", "12.50">>
    >>

HighestLoserFlag == <<"highest_loser_score_week", "=", "yes">>

LowestWinnerFlag == <<"lowest_winner_score_week", "=", "yes">>

\* The flag lists of a row: some of the flags, in the order of the appends.
RECURSIVE Pick(_, _)
Pick(flags, S) ==
    IF flags = <<>> THEN <<>>
    ELSE (IF Len(flags) \in S THEN Pick(SubSeq(flags, 1, Len(flags) - 1), S)
                                       \o <<flags[Len(flags)]>>
          ELSE Pick(SubSeq(flags, 1, Len(flags) - 1), S))

\* Flags appended on branches of one if / elif: a row has at most one of
\* each set.
ExclusiveFlags ==
    {{"blowout", "nail_biter", "close_game"},
     {"season_series_sweep", "evened_series"}}

FlagLists ==
    {Pick(RowFlags, S) :
        S \in {T \in SUBSET DOMAIN RowFlags :
                  /\ Cardinality(T) <= MaxFlags
                  /\ \A E \in ExclusiveFlags :
                        Cardinality({i \in T : RowFlags[i][1] \in E}) <= 1}}

\* k, v = f.split("=", 1); (k.strip(), v.strip())
ParseFlag(f) == [key |-> f[1], value |-> f[3]]

\* f"{k}={v}"
FormatFlag(kv) == <<kv.key, "=", kv.value>>

\* len(f"{k}={v}")
FlagLen(f) == StrLen[f[1]] + 1 + StrLen[f[3]]

KeyRank(k) == CHOOSE i \in DOMAIN FlagKeys : FlagKeys[i] = k

\* (kv[0], kv[1]) of x is smaller than that of y.  Two flags of a cell with
\* the same key are the same flag, so the value never decides.
FlagBefore(x, y) == KeyRank(x.key) < KeyRank(y.key)

RECURSIVE InsertFlag(_, _)
InsertFlag(sorted, kv) ==
    IF sorted = <<>> THEN <<kv>>
    ELSE IF FlagBefore(kv, Head(sorted)) THEN <<kv>> \o sorted
    ELSE <<Head(sorted)>> \o InsertFlag(Tail(sorted), kv)

\* The list left as it was parsed.
SortFlagsKeepsOrder(sorted, rest) == sorted \o rest

\* parsed.sort(key=lambda kv: (kv[0], kv[1]))
RECURSIVE SortFlags(_, _)
SortFlags(sorted, rest) ==
    IF rest = <<>> THEN sorted
    ELSE SortFlags(InsertFlag(sorted, Head(rest)), Tail(rest))

\* len("; ".join(parts))
RECURSIVE JoinedLen(_)
JoinedLen(parts) ==
    IF parts = <<>> THEN 0
    ELSE FlagLen(Head(parts)) + (IF Len(parts) > 1 THEN 2 ELSE 0)
             + JoinedLen(Tail(parts))

\* for p in parts: ... ; w is [out, line, cur_len]
WrapStep(w, p) ==
    IF w.cur_len + FlagLen(p) + (IF w.line # <<>> THEN 2 ELSE 0) > LINE_WIDTH
    THEN [out |-> Append(w.out, w.line), line |-> <<p>>,
          cur_len |-> FlagLen(p)]
    ELSE IF w.line # <<>>
    THEN [out |-> w.out, line |-> Append(w.line, p),
          cur_len |-> w.cur_len + FlagLen(p) + 2]
    ELSE [out |-> w.out, line |-> <<p>>, cur_len |-> FlagLen(p)]

RECURSIVE WrapLoop(_, _)
WrapLoop(w, parts) ==
    IF parts = <<>> THEN w ELSE WrapLoop(WrapStep(w, Head(parts)), Tail(parts))

\* The cell "-".
DashCell == <<>>

_order_and_wrap(flags) ==
    LET parsed == SortFlags(<<>>, [i \in DOMAIN flags |-> ParseFlag(flags[i])])
        parts == [i \in DOMAIN parsed |-> FormatFlag(parsed[i])]
        w == WrapLoop([out |-> <<>>, line |-> <<>>, cur_len |-> 0], parts)
    IN  IF flags = <<>> THEN DashCell
        ELSE IF JoinedLen(parts) <= LINE_WIDTH THEN <<parts>>
        ELSE IF w.line # <<>> THEN Append(w.out, w.line) ELSE w.out

\* [c.strip() for c in cell.replace("<br>", "; ").split(";") if c.strip()]
SplitCell(cell) == Flatten(cell)

\* wr_rows.append([..., _order_and_wrap(flags)]) of one matchup.
WeeklyResultsRow ==
    /\ NothingComputed
    /\ \E flags \in FlagLists :
        ctx' = [section |-> "weekly_results", annotated |-> FALSE,
                flags |-> flags, details |-> _order_and_wrap(flags)]
    /\ UNCHANGED <<coreVars, groupVars, streakVars, clientVars>>

\* The retroactive flags of the row: it held the highest losing score of
\* the week, the lowest winning score, both or neither.
AnnotateRow ==
    /\ ctx.section = "weekly_results"
    /\ ~ctx.annotated
    /\ \E highest_loser \in BOOLEAN, lowest_winner \in BOOLEAN :
        LET details == (IF ctx.details # DashCell THEN SplitCell(ctx.details)
                        ELSE <<>>)
                       \o (IF highest_loser THEN <<HighestLoserFlag>> ELSE <<>>)
                       \o (IF lowest_winner THEN <<LowestWinnerFlag>> ELSE <<>>)
        IN  ctx' = [ctx EXCEPT !.annotated = TRUE,
                               !.details = _order_and_wrap(details)]
    /\ UNCHANGED <<coreVars, groupVars, streakVars, clientVars>>

NextDetails == WeeklyResultsRow \/ AnnotateRow

SpecDetails == Init /\ [][NextDetails]_vars

(***************************************************************************)
(* scripts/lib/client.py: RateLimiter, called by SleeperClient.get_json.   *)
(* Times are in tenths of a second; clock is what time.monotonic() reads.  *)
(***************************************************************************)

MaxClock == 9
MaxInterval == 3

\* scripts/lib/constants.py: DEFAULT_MIN_INTERVAL_SEC = 0.10
DEFAULT_MIN_INTERVAL_SEC == 1

\* min_interval_sec of the constructor; 0 stands for None and 0.
MinIntervalArgs == 0..MaxInterval

\* RateLimiter.__init__
NewRateLimiter(min_interval_sec) ==
    /\ ~rate.constructed
    /\ NothingComputed
    /\ rate' = [constructed |-> TRUE,
                min_interval |-> IF min_interval_sec # 0 THEN min_interval_sec
                                 ELSE DEFAULT_MIN_INTERVAL_SEC,
                _last |-> 0, pc |-> "idle", now |-> 0, sleep |-> 0,
                calls |-> 0, slept |-> FALSE, returned |-> 0,
                previous_returned |-> 0]
    /\ UNCHANGED <<coreVars, groupVars, streakVars, ctx, clock>>

\* Time passes, whatever the caller is doing.
Tick ==
    /\ rate.constructed
    /\ clock < MaxClock
    /\ clock' = clock + 1
    /\ UNCHANGED <<coreVars, groupVars, streakVars, ctx, rate>>

\* wait(): now = time.monotonic(); if self._last: elapsed = now - self._last;
\* if elapsed < self.min_interval: the call is to sleep.
WaitCalled ==
    /\ rate.constructed
    /\ rate.pc = "idle"
    /\ LET elapsed == clock - rate._last
       IN  rate' = IF rate._last # 0 /\ elapsed < rate.min_interval
                   THEN [rate EXCEPT !.pc = "sleep", !.now = clock,
                                     !.sleep = rate.min_interval - elapsed]
                   ELSE [rate EXCEPT !.pc = "stamp", !.now = clock,
                                     !.sleep = 0]
    /\ UNCHANGED <<coreVars, groupVars, streakVars, ctx, clock>>

\* time.sleep(self.min_interval - elapsed): the call is suspended for at
\* least that long.
Sleep ==
    /\ rate.constructed
    /\ rate.pc = "sleep"
    /\ \E wake \in (clock + rate.sleep)..MaxClock : clock' = wake
    /\ rate' = [rate EXCEPT !.pc = "stamp"]
    /\ UNCHANGED <<coreVars, groupVars, streakVars, ctx>>

\* The stamp as it would be with `self._last = now`.
LastStampOfCall(now, monotonic) == now

\* self._last = time.monotonic()
LastStamp(now, monotonic) == monotonic

\* self._last = time.monotonic(), and wait() returns.
WaitReturns ==
    /\ rate.constructed
    /\ rate.pc = "stamp"
    /\ rate' = [rate EXCEPT !.pc = "idle",
                            !._last = LastStamp(rate.now, clock),
                            !.calls = Min(@ + 1, 2),
                            !.slept = (rate.sleep # 0),
                            !.previous_returned = rate.returned,
                            !.returned = clock]
    /\ UNCHANGED <<coreVars, groupVars, streakVars, ctx, clock>>

NextRate ==
    \/ \E min_interval_sec \in MinIntervalArgs : NewRateLimiter(min_interval_sec)
    \/ Tick
    \/ WaitCalled
    \/ Sleep
    \/ WaitReturns

SpecRate == Init /\ [][NextRate]_vars

(***************************************************************************)
(* _resolve_league_for_season of ff/report/collect.py and of               *)
(* scripts/weekly_report.py.  The API is a function from league ids to     *)
(* the JSON of GET /league/{id}: null, {} or a league with its season and  *)
(* its previous_league_id; 0 stands for an absent or null value.           *)
(***************************************************************************)

MaxLeagues == 3
MaxSeason == 2

\* while guard < 12
MaxPreviousLinks == 12

LeagueIds == 1..MaxLeagues

Seasons == 1..MaxSeason

LeagueResponses ==
    {[kind |-> "null", season |-> 0, previous_league_id |-> 0],
     [kind |-> "empty", season |-> 0, previous_league_id |-> 0]}
    \cup [kind : {"league"}, season : Seasons,
          previous_league_id : {0} \cup LeagueIds]

\* `league` is truthy: neither None nor {}.
Truthy(league) == league.kind = "league"

\* str(league.get("season")) != target, on a dict
SeasonDiffers(league, target) == league.season # target

\* The loop; r is [league, guard].
RECURSIVE ResolveLoop(_, _, _)
ResolveLoop(api, r, target) ==
    IF r.guard < MaxPreviousLinks /\ Truthy(r.league)
           /\ SeasonDiffers(r.league, target)
    THEN IF r.league.previous_league_id = 0 THEN r
         ELSE ResolveLoop(api, [league |-> api[r.league.previous_league_id],
                                guard |-> r.guard + 1], target)
    ELSE r

\* season = 0 stands for season is None.
_resolve_league_for_season(api, base_league_id, season) ==
    LET league == api[base_league_id]
        r == ResolveLoop(api, [league |-> league, guard |-> 0], season)
    IN  IF season = 0
        THEN [raised |-> "none", league |-> league, guard |-> 0]
        ELSE IF r.league.kind = "null"
        THEN [raised |-> "AttributeError", league |-> r.league,
              guard |-> r.guard]
        ELSE IF SeasonDiffers(r.league, season)
        THEN [raised |-> "ValueError", league |-> r.league, guard |-> r.guard]
        ELSE [raised |-> "none", league |-> r.league, guard |-> r.guard]

LeagueSection(impl, api, base_league_id, season) ==
    [section |-> "league", impl |-> impl, api |-> api,
     base_league_id |-> base_league_id, season |-> season,
     resolved |-> _resolve_league_for_season(api, base_league_id, season)]

\* ff/report/collect.py
CollectResolveLeague ==
    /\ NothingComputed
    /\ \E api \in [LeagueIds -> LeagueResponses], base_league_id \in LeagueIds,
          season \in {0} \cup Seasons :
            ctx' = LeagueSection("collect", api, base_league_id, season)
    /\ UNCHANGED <<coreVars, groupVars, streakVars, clientVars>>

\* scripts/weekly_report.py
ScriptResolveLeague ==
    /\ NothingComputed
    /\ \E api \in [LeagueIds -> LeagueResponses], base_league_id \in LeagueIds,
          season \in {0} \cup Seasons :
            ctx' = LeagueSection("script", api, base_league_id, season)
    /\ UNCHANGED <<coreVars, groupVars, streakVars, clientVars>>

NextLeague == CollectResolveLeague \/ ScriptResolveLeague

SpecLeague == Init /\ [][NextLeague]_vars

(***************************************************************************)
(* What the specification says of a call, stated on the input itself: a    *)
(* position <<wk, gi, ei>> is entry ei of group gi of week wk.             *)
(***************************************************************************)
Positions(start_week, end_week) ==
    UNION {UNION {{<<wk, gi, ei>> : ei \in DOMAIN weekly_groups[wk][gi]} :
                     gi \in DOMAIN weekly_groups[wk]} :
              wk \in WeekRange(start_week, end_week) \cap DOMAIN weekly_groups}

GroupAt(p) == weekly_groups[p[1]][p[2]]

EntryAt(p) == GroupAt(p)[p[3]]

PairPositions(start_week, end_week) ==
    {p \in Positions(start_week, end_week) : Len(GroupAt(p)) = 2}

OtherPositions(start_week, end_week) ==
    {p \in Positions(start_week, end_week) : Len(GroupAt(p)) # 2}

OpponentAt(p) == GroupAt(p)[3 - p[3]]

OnlyPairs(start_week, end_week) == OtherPositions(start_week, end_week) = {}

\* The positions of roster r among the positions P.
Of(r, P) == {p \in P : HasRid(EntryAt(p)) /\ EntryAt(p).roster_id = r}

ScoreAt(p) == Float(EntryAt(p))

OutcomeAt(p) ==
    IF ScoreAt(p) > Float(OpponentAt(p)) THEN "W"
    ELSE IF ScoreAt(p) < Float(OpponentAt(p)) THEN "L" ELSE "T"

OwnScores(P) == SumOver(P, [p \in P |-> ScoreAt(p)])

OpponentScores(P) == SumOver(P, [p \in P |-> Float(OpponentAt(p))])

\* The scores of all the other entries of the group of p.
OthersAt(p) ==
    LET I == DOMAIN GroupAt(p) \ {p[3]}
    IN  SumOver(I, [i \in I |-> Float(GroupAt(p)[i])])

OtherScores(P) == SumOver(P, [p \in P |-> OthersAt(p)])

RostersIn(P) == {EntryAt(p).roster_id : p \in {q \in P : HasRid(EntryAt(q))}}

StandingsDone == standings.called /\ standings.raised = "none"

RowOf(r) ==
    standings.table[CHOOSE i \in DOMAIN standings.table :
                        standings.table[i].roster_id = r]

RecOf(r) ==
    standings.records[CHOOSE i \in DOMAIN standings.records :
                          standings.records[i].roster_id = r]

\* C1: over a range of 2-entry matchups, every roster with an entry has one
\* row; its wins, losses and ties count the matchups it won, lost and tied
\* (whatever other groups the range holds), its accumulated points_for is
\* the sum of its own scores and its points_against the sum of its
\* opponents' scores, and the row shows these sums rounded to 2 decimals.
Thm_C1_HeadToHead ==
    standings.called =>
        LET P == Positions(standings.start_week, standings.end_week)
            PP == {p \in P : Len(GroupAt(p)) = 2}
        IN  /\ standings.raised = "none"
            /\ Len(standings.table) = Cardinality(RostersIn(P))
            /\ \A r \in RostersIn(P) :
                /\ \E i \in DOMAIN standings.table : standings.table[i].roster_id = r
                /\ LET row == RowOf(r)
                       rec == RecOf(r)
                       mine == Of(r, PP)
                   IN  /\ row.wins = Cardinality({p \in mine : OutcomeAt(p) = "W"})
                       /\ row.losses = Cardinality({p \in mine : OutcomeAt(p) = "L"})
                       /\ row.ties = Cardinality({p \in mine : OutcomeAt(p) = "T"})
                       /\ PP = P =>
                           /\ rec.points_for = OwnScores(mine)
                           /\ rec.points_against = OpponentScores(mine)
                           /\ row.points_for = Round2(OwnScores(mine))
                           /\ row.points_against = Round2(OpponentScores(mine))

\* C1 witness: weeks 1..2 hold 2-entry matchups only, and some roster has
\* won one and tied one of them.
Wit_C1_WinAndTie ==
    /\ StandingsDone
    /\ standings.start_week = 1 /\ standings.end_week = 2
    /\ OnlyPairs(1, 2)
    /\ \E i \in DOMAIN standings.table :
        /\ standings.table[i].wins = 1 /\ standings.table[i].ties = 1
        /\ standings.table[i].points_for > 0

\* C2: over a range of 2-entry matchups only, every row has
\* wins + losses + ties = games and the rows' points_for add up to the same
\* total as the rows' points_against.
Cex_C2_Conservation ==
    (StandingsDone /\ OnlyPairs(standings.start_week, standings.end_week)) =>
        /\ \A i \in DOMAIN standings.table :
               standings.table[i].wins + standings.table[i].losses
                   + standings.table[i].ties = standings.table[i].games
        /\ SumSeq([i \in DOMAIN standings.table |-> standings.table[i].points_for])
             = SumSeq([i \in DOMAIN standings.table |->
                           standings.table[i].points_against])

\* C3: a group whose entry count is not 2 adds nothing to anyone's wins,
\* losses, ties or games (games counts the roster's 2-entry matchups only),
\* and adds to each entry's points_for its own score and to its
\* points_against the scores of all the other entries of the group.
Thm_C3_OtherGroups ==
    standings.called =>
        LET P == Positions(standings.start_week, standings.end_week)
            PP == {p \in P : Len(GroupAt(p)) = 2}
            OP == {p \in P : Len(GroupAt(p)) # 2}
        IN  /\ standings.raised = "none"
            /\ \A r \in RostersIn(P) :
                LET row == RowOf(r)
                    rec == RecOf(r)
                    pairs == Of(r, PP)
                    others == Of(r, OP)
                IN  /\ row.games = Cardinality(pairs)
                    /\ row.wins + row.losses + row.ties = Cardinality(pairs)
                    /\ rec.points_for = OwnScores(pairs) + OwnScores(others)
                    /\ rec.points_against
                           = OpponentScores(pairs) + OtherScores(others)
                    /\ row.points_for = Round2(rec.points_for)
                    /\ row.points_against = Round2(rec.points_against)

\* C3 witness: the range holds a 3-entry group and a 1-entry group, and a
\* roster of the 3-entry group has games = 0 and points_against > 0.
Wit_C3_TripleAndBye ==
    /\ StandingsDone
    /\ \E p \in Positions(standings.start_week, standings.end_week) :
        /\ Len(GroupAt(p)) = 3
        /\ RowOf(EntryAt(p).roster_id).games = 0
        /\ RecOf(EntryAt(p).roster_id).points_against = 8
    /\ \E p \in Positions(standings.start_week, standings.end_week) :
        /\ Len(GroupAt(p)) = 1
        /\ ScoreAt(p) > 0

\* C4: the returned rows are ordered by win_pct descending, then points_for
\* descending, then roster_id ascending.
Thm_C4_Ordered ==
    standings.called =>
        \A i \in 1..(Len(standings.table) - 1) :
            LET x == standings.table[i]
                y == standings.table[i + 1]
            IN  \/ x.win_pct > y.win_pct
                \/ x.win_pct = y.win_pct /\ x.points_for > y.points_for
                \/ /\ x.win_pct = y.win_pct
                   /\ x.points_for = y.points_for
                   /\ x.roster_id < y.roster_id

\* C4 witness: three rows, the first ahead on win_pct, the second ahead of
\* the third on roster_id alone, and the third was the first to get a record.
Wit_C4_AllKeys ==
    /\ StandingsDone
    /\ Len(standings.table) = 3
    /\ standings.table[1].win_pct > standings.table[2].win_pct
    /\ standings.table[2].win_pct = standings.table[3].win_pct
    /\ standings.table[2].points_for = standings.table[3].points_for
    /\ standings.records[1].roster_id = standings.table[3].roster_id

\* C5: two rows with equal win_pct whose accumulated (unrounded) points_for
\* differ are ordered by the unrounded totals, the higher first.
Cex_C5_FullPrecisionTieBreak ==
    StandingsDone =>
        \A i \in DOMAIN standings.table : \A j \in DOMAIN standings.table :
            LET x == standings.table[i]
                y == standings.table[j]
            IN  (/\ i < j
                 /\ x.win_pct = y.win_pct
                 /\ RecOf(x.roster_id).points_for # RecOf(y.roster_id).points_for)
                => RecOf(x.roster_id).points_for > RecOf(y.roster_id).points_for

\* C6: a call never raises because an entry lacks a roster id; the entry is
\* skipped and every roster that has an entry in the range gets its row.
Cex_C6_MissingRosterId ==
    standings.called =>
        /\ standings.raised # "TypeError"
        /\ standings.raised = "none" =>
               {standings.table[i].roster_id : i \in DOMAIN standings.table}
                   = RostersIn(Positions(standings.start_week, standings.end_week))

\* C7: a points value that is missing, null or a non-numeric string counts
\* as a score of 0 and never makes the call raise.
Cex_C7_NonNumericPoints ==
    standings.called => standings.raised # "ValueError"

\* The indices of the rows of the input that were filed under key mid.
RowsWithKey(mid) ==
    {i \in DOMAIN rows :
        IF "matchup_id" \in DOMAIN rows[i] THEN rows[i].matchup_id = mid
        ELSE HasRid(rows[i]) /\ mid = -100000 - rows[i].roster_id}

GroupOfKey(mid) ==
    grouped.groups[CHOOSE g \in DOMAIN grouped.groups : grouped.groups[g].mid = mid]

\* C8: rows are grouped by matchup id, in input order; a row without a
\* matchup id gets the key -100000 - roster_id, which is no positive
\* matchup id and differs from the key of every row with another roster
\* id, so the row is alone in its group.
Thm_C8_SyntheticKey ==
    grouped.called =>
        /\ \A g \in DOMAIN grouped.groups : \A h \in DOMAIN grouped.groups :
               g # h => grouped.groups[g].mid # grouped.groups[h].mid
        /\ SumSeq([g \in DOMAIN grouped.groups |-> Len(grouped.groups[g].rows)])
               = Len(rows)
        /\ \A i \in DOMAIN rows :
            /\ "matchup_id" \in DOMAIN rows[i] =>
                /\ \E g \in DOMAIN grouped.groups :
                       grouped.groups[g].mid = rows[i].matchup_id
                /\ LET I == RowsWithKey(rows[i].matchup_id)
                       G == GroupOfKey(rows[i].matchup_id).rows
                   IN  /\ Len(G) = Cardinality(I)
                       /\ \A k \in DOMAIN G : \E j \in I :
                           /\ G[k] = rows[j]
                           /\ Cardinality({m \in I : m <= j}) = k
            /\ ("matchup_id" \notin DOMAIN rows[i] /\ HasRid(rows[i])) =>
                LET key == -100000 - rows[i].roster_id
                IN  /\ \E g \in DOMAIN grouped.groups : grouped.groups[g].mid = key
                    /\ GroupOfKey(key).rows = <<rows[i]>>
                    /\ key < 1
                    /\ \A j \in DOMAIN rows :
                           ("matchup_id" \in DOMAIN rows[j]) => rows[j].matchup_id # key

\* C8 witness: two rows without a matchup id and with different roster ids
\* and a row with a matchup id have been grouped into three groups.
Wit_C8_TwoSynthetic ==
    /\ grouped.called
    /\ Len(rows) = 3
    /\ Len(grouped.groups) = 3
    /\ \E i \in DOMAIN rows : \E j \in DOMAIN rows :
        /\ i # j
        /\ "matchup_id" \notin DOMAIN rows[i] /\ HasRid(rows[i])
        /\ "matchup_id" \notin DOMAIN rows[j] /\ HasRid(rows[j])
    /\ \E i \in DOMAIN rows : "matchup_id" \in DOMAIN rows[i]

ResultsDone == weekly_results.called /\ weekly_results.raised = "none"

\* C9: a roster's outcome sequence holds, for every 2-entry matchup of the
\* range it took part in, one <<week, "W" | "L" | "T">> by the comparison of
\* the two scores, and nothing else; a roster without such a matchup has no
\* sequence; every sequence is in ascending week order.
Thm_C9_Outcomes ==
    weekly_results.called =>
        LET PP == PairPositions(weekly_results.start_week, weekly_results.end_week)
            res == weekly_results.results
        IN  /\ weekly_results.raised = "none"
            /\ DOMAIN res = RostersIn(PP)
            /\ \A r \in DOMAIN res :
                /\ Len(res[r]) = Cardinality(Of(r, PP))
                /\ \A wk \in Weeks : \A o \in Outcomes :
                       Cardinality({i \in DOMAIN res[r] : res[r][i] = <<wk, o>>})
                           = Cardinality({p \in Of(r, PP) :
                                             p[1] = wk /\ OutcomeAt(p) = o})
                /\ \A i \in DOMAIN res[r] : \A j \in DOMAIN res[r] :
                       i < j => res[r][i][1] <= res[r][j][1]

\* C9 witness: over weeks 1..2 a roster won its matchup of week 1 and was
\* alone in its group in week 2, and its sequence holds the win only.
Wit_C9_WinThenBye ==
    /\ ResultsDone
    /\ weekly_results.start_week = 1 /\ weekly_results.end_week = 2
    /\ \E r \in DOMAIN weekly_results.results :
        /\ weekly_results.results[r] = <<<<1, "W">>>>
        /\ \E p \in Of(r, OtherPositions(1, 2)) : p[1] = 2

\* The number of last entries of f that have the outcome of the last one.
RunLength(f) ==
    LET n == Len(f)
    IN  CHOOSE k \in 1..n :
            /\ \A i \in (n - k + 1)..n : f[i][2] = f[n][2]
            /\ k = n \/ f[n - k][2] # f[n][2]

\* C10: current_streak looks at the entries with week <= through_week only;
\* it is ("none", 0, 0, through_week) when there are none or the most recent
\* one is a tie, and otherwise the outcome of the most recent entry, the
\* number of consecutive most recent entries with that outcome, the week of
\* the earliest of them, and through_week.
Thm_C10_CurrentStreak ==
    streak.called =>
        LET tw == streak.through_week
            I == {i \in DOMAIN res_list : res_list[i][1] <= tw}
            f == [k \in 1..Cardinality(I) |->
                     res_list[CHOOSE i \in I : Cardinality({j \in I : j <= i}) = k]]
            n == Len(f)
        IN  IF n = 0 \/ f[n][2] = "T"
            THEN streak.current = <<"none", 0, 0, tw>>
            ELSE streak.current
                   = <<f[n][2], RunLength(f), f[n - RunLength(f) + 1][1], tw>>

\* C10 witness: a streak of two losses that follows a win and a tie and is
\* followed by a game after through_week.
Wit_C10_RunAfterTie ==
    /\ streak.called
    /\ Len(res_list) = 5
    /\ res_list[1][2] = "W" /\ res_list[2][2] = "T"
    /\ res_list[5][1] > streak.through_week
    /\ streak.current[1] = "L"
    /\ streak.current[2] = 2
    /\ streak.current[3] = res_list[3][1]

\* The entries of res_list with week <= tw, in order.
Through(tw) == Filtered(res_list, tw)

\* i..j is a run of outcome o in f: a maximal block of consecutive entries
\* that all have outcome o.
IsRun(f, i, j, o) ==
    /\ i <= j
    /\ \A k \in i..j : f[k][2] = o
    /\ i = 1 \/ f[i - 1][2] # o
    /\ j = Len(f) \/ f[j + 1][2] # o

\* The length of the longest run of outcome o in f, 0 when there is none.
LongestRun(f, o) ==
    LET L == {ij[2] - ij[1] + 1 : ij \in
                 {ij \in (DOMAIN f) \X (DOMAIN f) : IsRun(f, ij[1], ij[2], o)}}
    IN  IF L = {} THEN 0 ELSE CHOOSE m \in L : \A n \in L : n <= m

\* C11: for wins and, independently, for losses, the length returned is the
\* length of the longest run of consecutive entries of that outcome among
\* the entries with week <= through_week (a tie or the other outcome ends a
\* run), and the result is (0, "-") for an outcome that never occurred.
Thm_C11_LongestLengths ==
    longest.called =>
        LET f == Through(longest.through_week)
        IN  /\ longest.best[1][1] = LongestRun(f, "W")
            /\ longest.best[2][1] = LongestRun(f, "L")
            /\ (\A k \in DOMAIN f : f[k][2] # "W") => longest.best[1] = <<0, NoSpan>>
            /\ (\A k \in DOMAIN f : f[k][2] # "L") => longest.best[2] = <<0, NoSpan>>

\* C11 witness: two wins, a tie and a third win: the longest win streak is
\* 2, not 3, and there is no loss streak.
Wit_C11_TieSplitsRun ==
    /\ longest.called
    /\ Len(res_list) = 4
    /\ longest.through_week >= res_list[4][1]
    /\ res_list[1][2] = "W" /\ res_list[2][2] = "W"
    /\ res_list[3][2] = "T" /\ res_list[4][2] = "W"
    /\ longest.best[1][1] = 2
    /\ longest.best[2] = <<0, NoSpan>>

\* The label of best b names the first and the last week of a run of
\* outcome o in f that has the best's length.
LabelCoversRun(b, f, o) ==
    \E i \in DOMAIN f : \E j \in DOMAIN f :
        /\ IsRun(f, i, j, o)
        /\ j - i + 1 = b[1]
        /\ b[2] = SpanLabel(f[i][1], f[j][1])

\* C12: the span label of the best win streak, and of the best loss streak,
\* is "w{start}-w{end}" with start the week of the run's first game and end
\* the week of the run's last game.
Cex_C12_SpanLabel ==
    longest.called =>
        LET f == Through(longest.through_week)
        IN  /\ longest.best[1][1] > 0 => LabelCoversRun(longest.best[1], f, "W")
            /\ longest.best[2][1] > 0 => LabelCoversRun(longest.best[2], f, "L")

\* The number of 2-entry matchups of the positions P in which roster x
\* outscored roster y.
Outscored(x, y, P) ==
    Cardinality({p \in Of(x, P) :
                    /\ OpponentAt(p).roster_id = y
                    /\ ScoreAt(p) > Float(OpponentAt(p))})

\* C13: the cell of an ordered pair of distinct rosters (X, Y) holds the
\* number of 2-entry matchups of weeks start_week..report_week in which X
\* outscored Y and the number in which Y outscored X, whatever the order of
\* the two entries; a tied matchup adds to neither.
Thm_C13_GridCounts ==
    ctx.section = "h2h_grid" =>
        LET PP == PairPositions(ctx.start_week, ctx.report_week)
        IN  \A x \in RosterIds : \A y \in RosterIds :
                x # y => ctx.cells[<<x, y>>]
                           = WinLossCell(Outscored(x, y, PP), Outscored(y, x, PP))

\* C13 witness: over weeks 1..2 two rosters met twice, the entries in either
\* order, each won once, and the cell reads 1-1.
Wit_C13_OneEach ==
    /\ ctx.section = "h2h_grid"
    /\ ctx.start_week = 1 /\ ctx.report_week = 2
    /\ \E p \in PairPositions(1, 1) : \E q \in PairPositions(2, 2) :
        /\ p[3] = 1 /\ q[3] = 2
        /\ EntryAt(p).roster_id = EntryAt(q).roster_id
        /\ OpponentAt(p).roster_id = OpponentAt(q).roster_id
        /\ OutcomeAt(p) = "W" /\ OutcomeAt(q) = "L"
        /\ ctx.cells[<<EntryAt(p).roster_id, OpponentAt(p).roster_id>>]
               = WinLossCell(1, 1)

\* C14: in every grid, the cell of two distinct rosters of the grid that
\* have no 2-entry matchup in the range is "0-0", and the diagonal cells,
\* and only they, are "-".
Cex_C14_ZeroZero ==
    ctx.section = "h2h_grid" =>
        LET PP == PairPositions(ctx.start_week, ctx.report_week)
        IN  \A xy \in DOMAIN ctx.cells :
                /\ (ctx.cells[xy] = DiagonalCell) <=> (xy[1] = xy[2])
                /\ (/\ xy[1] # xy[2]
                    /\ \A p \in Of(xy[1], PP) : OpponentAt(p).roster_id # xy[2])
                   => ctx.cells[xy] = WinLossCell(0, 0)

\* The positions of week wk among the positions P.
InWeek(P, wk) == {p \in P : p[1] = wk}

\* The halves a roster at position p gets against the roster at q: 2 when
\* q scored strictly lower, 1 when equal, 0 when higher.
HalvesOver(p, q) ==
    IF ScoreAt(q) < ScoreAt(p) THEN 2 ELSE IF ScoreAt(q) = ScoreAt(p) THEN 1 ELSE 0

\* All-play wins (in halves) of roster r over the positions P: for each of
\* its entries, the halves over every other roster's entry of that week.
AllPlayWins(r, P) ==
    LET M == {pq \in Of(r, P) \X P :
                 pq[2][1] = pq[1][1] /\ EntryAt(pq[2]).roster_id # r}
    IN  SumOver(M, [pq \in M |-> HalvesOver(pq[1], pq[2])])

AllPlayLosses(r, P) ==
    LET M == {pq \in Of(r, P) \X P :
                 pq[2][1] = pq[1][1] /\ EntryAt(pq[2]).roster_id # r}
    IN  SumOver(M, [pq \in M |-> HalvesOver(pq[2], pq[1])])

WeekMedian(P, wk) ==
    LET order == SortedIds({EntryAt(p).roster_id : p \in InWeek(P, wk)})
    IN  Median([i \in DOMAIN order |->
                   ScoreAt(CHOOSE p \in InWeek(P, wk) :
                               EntryAt(p).roster_id = order[i])])

\* The halves of "above" of roster r over P, and of "below".
MedianAbove(r, P) ==
    LET M == Of(r, P)
    IN  SumOver(M, [p \in M |->
            IF ScoreAt(p) > WeekMedian(P, p[1]) THEN 2
            ELSE IF ScoreAt(p) = WeekMedian(P, p[1]) THEN 1 ELSE 0])

MedianBelow(r, P) ==
    LET M == Of(r, P)
    IN  SumOver(M, [p \in M |->
            IF ScoreAt(p) < WeekMedian(P, p[1]) THEN 2
            ELSE IF ScoreAt(p) = WeekMedian(P, p[1]) THEN 1 ELSE 0])

\* C16: the median record of a roster is, over the weeks of the range, +1
\* above when its score is strictly above that week's median of all
\* participants' scores, +1 below when strictly below, +0.5 of each when
\* equal to the median.
Cex_C16_Median ==
    ctx.section = "all_play_median" =>
        LET P == Positions(ctx.start_week, ctx.report_week)
        IN  \A r \in RostersIn(P) :
                /\ r \in DOMAIN ctx.median
                /\ ctx.median[r].w = MedianAbove(r, P)
                /\ ctx.median[r].l = MedianBelow(r, P)

\* The 2-entry matchups of weeks first..last, as <<week, group>>.
Matchups(first, last) ==
    {<<p[1], p[2]>> : p \in {q \in PairPositions(first, last) : q[3] = 1}}

\* margin = |scoreA - scoreB|
MarginOf(m) ==
    Abs(Float(weekly_groups[m[1]][m[2]][1]) - Float(weekly_groups[m[1]][m[2]][2]))

\* ex reports, of the matchups G, one with the largest margin, one with the
\* smallest, and the mean of the margins (shown with 2 decimals).
ReportsExtremes(ex, G) ==
    /\ <<ex.largest.week, ex.largest.matchup_id>> \in G
    /\ \A m \in G : MarginOf(m) <= MarginOf(<<ex.largest.week, ex.largest.matchup_id>>)
    /\ <<ex.smallest.week, ex.smallest.matchup_id>> \in G
    /\ \A m \in G : MarginOf(m) >= MarginOf(<<ex.smallest.week, ex.smallest.matchup_id>>)
    /\ ex.average_margin
           = RoundHalfEven(SumOver(G, [m \in G |-> MarginOf(m)]),
                           10 * Cardinality(G)) * 10

\* C17: of the 2-entry matchups of the range, ties included, with
\* margin = |scoreA - scoreB|, the summary reports for the report week
\* alone, and for weeks start_week..report_week, the matchup with the
\* largest margin, the one with the smallest, and the mean margin.
Cex_C17_MarginSummary ==
    ctx.section = "margin_summary" =>
        LET W == Matchups(ctx.report_week, ctx.report_week)
            S == Matchups(ctx.start_week, ctx.report_week)
            ms == ctx.margin_summary
        IN  /\ ("week" \in DOMAIN ms) <=> (W # {})
            /\ ("season_through" \in DOMAIN ms) <=> (S # {})
            /\ W # {} => ReportsExtremes(ms["week"], W)
            /\ S # {} => ReportsExtremes(ms["season_through"], S)

(***************************************************************************)
(* Divisions and playoff seeding, stated on the standings table and the    *)
(* rosters' division assignment.                                           *)
(***************************************************************************)

\* The roster has no division: the assignment is absent, or 0.
WithoutDivision(rosters, rid) ==
    rid \notin DOMAIN rosters \/ rosters[rid] = 0

\* The rosters ranked in the standings of some division.
RankedInDivisions(ds) ==
    UNION {{ds[i].rows[j].roster_id : j \in DOMAIN ds[i].rows} :
           i \in DOMAIN ds}

\* The rosters the playoff standings label "Division Winner".
DivisionWinners(ps) ==
    {ps[i].roster_id : i \in {k \in DOMAIN ps : ps[k].type = "Division Winner"}}

\* C18: a roster without a division (its assignment is absent or 0) is in
\* no division's standings and is never labelled Division Winner.
Cex_C18_NoDivision ==
    ctx.section = "divisions" =>
        \A rid \in RosterIds :
            WithoutDivision(ctx.rosters, rid) =>
                /\ rid \notin RankedInDivisions(ctx.division_standings)
                /\ rid \notin DivisionWinners(ctx.playoff_standings)

\* The places of the table, in standings order, that satisfy Test.
PlacesWhere(table, Test(_)) ==
    SelectSeq([i \in DOMAIN table |-> i], Test)

\* Place i holds the best record of its roster's division: no other roster
\* of the division has a higher (win_pct, points_for), and of equal ones it
\* is the first in the standings.
BestOfDivision(table, rosters, i) ==
    /\ ~WithoutDivision(rosters, table[i].roster_id)
    /\ \A j \in DOMAIN table \ {i} :
           (/\ ~WithoutDivision(rosters, table[j].roster_id)
            /\ rosters[table[j].roster_id] = rosters[table[i].roster_id])
           => \/ BetterRecord(table[i], table[j])
              \/ ~BetterRecord(table[j], table[i]) /\ i < j

\* The seeding the specification describes: the division winners in
\* standings order, then the others in standings order, at most
\* playoff_teams of them; each seed as <<roster_id, type>>.
SeedingOf(table, rosters, playoff_teams) ==
    LET IsWinner(i) == BestOfDivision(table, rosters, i)
        IsOther(i) == ~BestOfDivision(table, rosters, i)
        winners == PlacesWhere(table, IsWinner)
        others == PlacesWhere(table, IsOther)
        all == [i \in DOMAIN winners |->
                    <<table[winners[i]].roster_id, "Division Winner">>]
               \o [i \in DOMAIN others |->
                    <<table[others[i]].roster_id, "Wildcard">>]
    IN  SubSeq(all, 1, Min(playoff_teams, Len(all)))

\* C19: with playoff_teams > 0 and standings, the seeds are each division's
\* best record (by win_pct, then points_for) as "Division Winner" in
\* standings order, then the remaining rosters in standings order as
\* "Wildcard", cut to at most playoff_teams seeds, numbered from 1.
Cex_C19_Seeding ==
    (ctx.section = "divisions" /\ ctx.playoff_teams > 0
        /\ ctx.standings # <<>>) =>
        LET ps == ctx.playoff_standings
        IN  /\ [i \in DOMAIN ps |-> <<ps[i].roster_id, ps[i].type>>]
                 = SeedingOf(ctx.standings, ctx.rosters, ctx.playoff_teams)
            /\ \A i \in DOMAIN ps : ps[i].seed = i

(***************************************************************************)
(* Weekly groups that lack weeks of the range.                             *)
(***************************************************************************)

\* The weeks of the range that weekly_groups holds with matchup groups, in
\* ascending order: the key is there and its value is neither None nor
\* empty.
PresentWeeks(wg, start_week, end_week) ==
    SortedIds({w \in WeekRange(start_week, end_week) :
                   w \in DOMAIN wg /\ wg[w] # None /\ wg[w] # <<>>})

\* The records accumulated over the groups of the given weeks alone.
RECURSIVE StandingsOver(_, _, _)
StandingsOver(st, wg, weeks) ==
    IF weeks = <<>> THEN st
    ELSE StandingsOver(StandingsGroups("core", st, wg[Head(weeks)]), wg,
                       Tail(weeks))

\* The outcome sequences accumulated over the groups of the given weeks
\* alone.
RECURSIVE ResultsOver(_, _, _)
ResultsOver(st, wg, weeks) ==
    IF weeks = <<>> THEN st
    ELSE ResultsOver(ResultsGroups("core", st, Head(weeks), wg[Head(weeks)]),
                     wg, Tail(weeks))

\* C20: when weekly_groups lacks weeks of the range (no key, or an empty or
\* None value), the standings and the weekly results are computed without
\* an exception and are those of the weeks that are present.
Thm_C20_MissingWeeks ==
    /\ standings.called =>
        LET st == StandingsOver([records |-> <<>>, raised |-> "none"],
                                weekly_groups,
                                PresentWeeks(weekly_groups,
                                             standings.start_week,
                                             standings.end_week))
        IN  /\ standings.raised = "none"
            /\ standings.records = st.records
            /\ standings.table
                 = SortRows(<<>>, [i \in DOMAIN st.records |->
                                       TableRow(st.records[i])])
    /\ weekly_results.called =>
        LET st == ResultsOver([results |-> <<>>, raised |-> "none"],
                              weekly_groups,
                              PresentWeeks(weekly_groups,
                                           weekly_results.start_week,
                                           weekly_results.end_week))
        IN  /\ weekly_results.raised = "none"
            /\ weekly_results.results = st.results

\* The standings of weeks 1..2 were computed from weekly groups without a
\* key for week 1 and with a decided matchup in week 2.
Wit_C20_WeekOneMissing ==
    /\ standings.called
    /\ standings.start_week = 1 /\ standings.end_week = 2
    /\ 1 \notin DOMAIN weekly_groups
    /\ 2 \in DOMAIN weekly_groups
    /\ Len(standings.table) = 2
    /\ standings.table[1].wins = 1

(***************************************************************************)
(* The details cell of a Weekly Results row.                               *)
(***************************************************************************)

\* The flags of a cell as a reader splits them: "<br>" read as "; ", then
\* split on ";".
TokensOf(cell) == Flatten(cell)

\* t is a key=value token.
IsKeyValue(t) ==
    /\ Len(t) = 3
    /\ t[2] = "="
    /\ \E i \in DOMAIN FlagKeys : FlagKeys[i] = t[1]

\* (key, value) of x is not above that of y.
KeyValueNotAbove(x, y) ==
    \/ KeyRank(x[1]) < KeyRank(y[1])
    \/ x[1] = y[1] /\ x[3] = y[3]

\* C21: a details cell other than "-" is a list of key=value tokens in
\* ascending (key, value) order, when the row is built and after the
\* highest_loser_score_week / lowest_winner_score_week flags are added to
\* the formatted cell, wrapped or not.
Thm_C21_DetailsOrdered ==
    (ctx.section = "weekly_results" /\ ctx.details # DashCell) =>
        LET ts == TokensOf(ctx.details)
        IN  /\ ts # <<>>
            /\ \A i \in DOMAIN ts : IsKeyValue(ts[i])
            /\ \A i \in DOMAIN ts : \A j \in DOMAIN ts :
                   i < j => KeyValueNotAbove(ts[i], ts[j])

\* A wrapped cell to which highest_loser_score_week was added: the flag was
\* appended last and stands before winner_highest_score_week.
Wit_C21_WrappedAndAnnotated ==
    /\ ctx.section = "weekly_results"
    /\ ctx.annotated
    /\ Len(ctx.details) >= 2
    /\ LET ts == TokensOf(ctx.details)
       IN  /\ \E i \in DOMAIN ts : ts[i] = HighestLoserFlag
           /\ ts[Len(ts)][1] = "winner_highest_score_week"

(***************************************************************************)
(* The rate limiter.                                                       *)
(***************************************************************************)

\* C22: a wait() call after the first returns no earlier than min_interval
\* after the previous wait() call of the caller returned.
Thm_C22_MinInterval ==
    (rate.constructed /\ rate.calls >= 2) =>
        rate.returned - rate.previous_returned >= rate.min_interval

\* A second call came before the interval was over, slept, and returned
\* exactly min_interval after the first.
Wit_C22_SleptTheRest ==
    /\ rate.constructed
    /\ rate.calls >= 2
    /\ rate.pc = "idle"
    /\ rate.slept
    /\ rate.min_interval > 1
    /\ rate.returned - rate.previous_returned = rate.min_interval

(***************************************************************************)
(* The league of a season.                                                 *)
(***************************************************************************)

\* C23: with a target season, the resolution follows at most 12
\* previous_league_id links and either returns a league of the target
\* season or fails with ValueError.
Cex_C23_ResolveOrValueError ==
    (ctx.section = "league" /\ ctx.season # 0) =>
        /\ ctx.resolved.guard <= MaxPreviousLinks
        /\ \/ /\ ctx.resolved.raised = "none"
              /\ ctx.resolved.league.kind = "league"
              /\ ctx.resolved.league.season = ctx.season
           \/ ctx.resolved.raised = "ValueError"

(***************************************************************************)
(* The standings and the outcome sequences of one build.                   *)
(***************************************************************************)

\* The outcome sequence of roster r; empty when it has none.
SequenceOf(r) ==
    IF r \in DOMAIN weekly_results.results THEN weekly_results.results[r]
    ELSE <<>>

\* The number of entries of seq with outcome o.
CountOutcome(seq, o) == Cardinality({i \in DOMAIN seq : seq[i][2] = o})

\* C24: computed from the same weekly_groups and weeks, a roster's outcome
\* sequence has as many "W", "L" and "T" entries as its standings row has
\* wins, losses and ties; a roster with games = 0 has no entries, and a
\* roster with a sequence has a row.
Thm_C24_SequencesMatchStandings ==
    (StandingsDone /\ ResultsDone) =>
        /\ \A i \in DOMAIN standings.table :
              LET row == standings.table[i]
                  seq == SequenceOf(row.roster_id)
              IN  /\ CountOutcome(seq, "W") = row.wins
                  /\ CountOutcome(seq, "L") = row.losses
                  /\ CountOutcome(seq, "T") = row.ties
                  /\ row.games = 0 => seq = <<>>
        /\ \A r \in DOMAIN weekly_results.results :
              \E i \in DOMAIN standings.table : standings.table[i].roster_id = r

\* A roster with a win and a tie over weeks 1..2, in its row and in its
\* sequence.
Wit_C24_WinAndTie ==
    /\ StandingsDone /\ ResultsDone
    /\ \E i \in DOMAIN standings.table :
          /\ standings.table[i].wins = 1
          /\ standings.table[i].ties = 1
          /\ Len(SequenceOf(standings.table[i].roster_id)) = 2

(***************************************************************************)
(* The current and the longest streak of one sequence.                     *)
(***************************************************************************)

\* C25: on the same sequence and through_week, a current streak of type "W"
\* (resp. "L") and length n comes with a longest win (resp. loss) streak of
\* length at least n.
Thm_C25_CurrentWithinLongest ==
    (streak.called /\ longest.called) =>
        /\ streak.current[1] = "W" => longest.best[1][1] >= streak.current[2]
        /\ streak.current[1] = "L" => longest.best[2][1] >= streak.current[2]

\* A current loss streak of 2 that is the longest loss streak, after a
\* longer win streak.
Wit_C25_OpenRunIsLongest ==
    /\ streak.called /\ longest.called
    /\ streak.current[1] = "L"
    /\ streak.current[2] = 2
    /\ longest.best[2][1] = 2
    /\ longest.best[1][1] = 3

(***************************************************************************)
(* The two halves of the head-to-head grid.                                *)
(***************************************************************************)

\* The number of 2-entry matchups of the positions P between x and y.
Meetings(x, y, P) ==
    Cardinality({p \in Of(x, P) : OpponentAt(p).roster_id = y})

\* C26: for every two distinct rosters X and Y of the grid, cell (X, Y) is
\* "w-l", cell (Y, X) is "l-w" with the same two numbers, and w + l is at
\* most the number of 2-entry matchups between X and Y in the range.
Thm_C26_Antisymmetric ==
    ctx.section = "h2h_grid" =>
        LET PP == PairPositions(ctx.start_week, ctx.report_week)
        IN  \A xy \in DOMAIN ctx.cells :
                xy[1] # xy[2] =>
                    LET cell == ctx.cells[xy]
                        mirror == ctx.cells[<<xy[2], xy[1]>>]
                    IN  /\ Len(cell) = 3 /\ cell[2] = "-"
                        /\ mirror = WinLossCell(cell[3], cell[1])
                        /\ cell[1] + cell[3] <= Meetings(xy[1], xy[2], PP)

\* C26 witness: two rosters met twice in weeks 1..2, one game won and one
\* tied, so the cells read 1-0 and 0-1 and w + l is below the two matchups.
Wit_C26_WinAndTie ==
    /\ ctx.section = "h2h_grid"
    /\ ctx.start_week = 1 /\ ctx.report_week = 2
    /\ \E x \in RosterIds : \E y \in RosterIds :
        /\ x # y
        /\ Meetings(x, y, PairPositions(1, 2)) = 2
        /\ ctx.cells[<<x, y>>] = WinLossCell(1, 0)
        /\ ctx.cells[<<y, x>>] = WinLossCell(0, 1)

(***************************************************************************)
(* Conservation of the all-play results.                                   *)
(***************************************************************************)

\* The all-play games (in halves) of roster r over the positions P: n - 1
\* for each week of n >= 2 scoring rosters in which r scored.
AllPlayGames(r, P) ==
    LET M == Of(r, P)
    IN  SumOver(M, [p \in M |->
            LET n == Cardinality(InWeek(P, p[1]))
            IN  IF n >= 2 THEN 2 * (n - 1) ELSE 0])

Cex_C28_SameRecords ==
    ctx.section = "all_play_median" =>
        LET other == build_weekly_context(ctx.impl = "original", weekly_groups,
                                          ctx.start_week, ctx.report_week)
        IN  /\ \A r \in DOMAIN ctx.all_play \cap DOMAIN other.all_play :
                ctx.all_play[r] = other.all_play[r]
            /\ \A r \in DOMAIN ctx.median \cap DOMAIN other.median :
                ctx.median[r] = other.median[r]

(***************************************************************************)
(* The standings of rearranged weekly groups.                              *)
(***************************************************************************)

\* The permutations of 1..n.
Perms(n) == {f \in [1..n -> 1..n] : \A i \in 1..n : \A j \in 1..n :
                                        f[i] = f[j] => i = j}

\* The groups gs in the order f, the 2-entry groups at the places R with
\* their two entries exchanged.
Rearranged(gs, f, R) ==
    [i \in DOMAIN gs |->
        LET g == gs[f[i]]
        IN  IF i \in R /\ Len(g) = 2 THEN <<g[2], g[1]>> ELSE g]

\* weekly_groups with the groups of week wk rearranged.
RearrangedWeek(wk, f, R) ==
    [weekly_groups EXCEPT ![wk] = Rearranged(weekly_groups[wk], f, R)]

\* C29: the table that compute_standings_with_groups returns is the one it
\* returns for the same weeks with the groups of a week in any other order
\* and the two entries of any of its 2-entry groups exchanged.
Thm_C29_OrderIndependent ==
    (standings.called /\ standings.raised = "none") =>
        \A wk \in DOMAIN weekly_groups :
            LET n == Len(weekly_groups[wk])
            IN  \A f \in Perms(n) :
                \A R \in SUBSET {i \in 1..n : Len(weekly_groups[wk][f[i]]) = 2} :
                    compute_standings_with_groups(RearrangedWeek(wk, f, R),
                        standings.start_week, standings.end_week).table
                      = standings.table

\* C29 witness: standings of three rows over a week of two groups, one of
\* them a 2-entry matchup that was not tied; exchanging the groups and the
\* entries changes the order in which the rosters get their records, and
\* the table stays.
Wit_C29_RecordsOrderChanges ==
    /\ standings.called /\ standings.raised = "none"
    /\ Len(standings.table) = 3
    /\ standings.start_week = 1
    /\ 1 \in DOMAIN weekly_groups
    /\ Len(weekly_groups[1]) = 2
    /\ \E p \in PairPositions(1, 1) : OutcomeAt(p) = "W"
    /\ LET other == compute_standings_with_groups(
                        RearrangedWeek(1, <<2, 1>>, {1, 2}),
                        standings.start_week, standings.end_week)
       IN  /\ other.records[1].roster_id # standings.records[1].roster_id
           /\ other.records[3].roster_id # standings.records[3].roster_id
           /\ other.table = standings.table

(***************************************************************************)
(* The seeds of the playoff standings.                                     *)
(***************************************************************************)

\* C30: in the playoff standings no roster is seeded twice, the seeds are
\* 1..n in list order, and n = min(playoff_teams, number of standings rows).
Thm_C30_Seeds ==
    ctx.section = "divisions" =>
        LET ps == ctx.playoff_standings
        IN  /\ \A i \in DOMAIN ps : \A j \in DOMAIN ps :
                ps[i].roster_id = ps[j].roster_id => i = j
            /\ \A i \in DOMAIN ps : ps[i].seed = i
            /\ Len(ps) = Min(ctx.playoff_teams, Len(ctx.standings))

\* C30 witness: three standings rows, two seeds, a division winner that is
\* not first in the standings seeded first and a wildcard second.
Wit_C30_WinnerAndWildcard ==
    /\ ctx.section = "divisions"
    /\ ctx.playoff_teams = 2
    /\ Len(ctx.standings) = 3
    /\ Len(ctx.playoff_standings) = 2
    /\ ctx.playoff_standings[1].type = "Division Winner"
    /\ ctx.playoff_standings[1].roster_id # ctx.standings[1].roster_id
    /\ ctx.playoff_standings[2].type = "Wildcard"
    /\ ctx.playoff_standings[2].roster_id = ctx.standings[1].roster_id

====
